---- MODULE Spec2Model ----
(***************************************************************************)
(* Legends-Notifier: the notification console's send / save / schedule     *)
(* flows (React components) against the upstream document store.           *)
(*                                                                         *)
(* Texts are sequences of tokens so that String.trim, JSON.parse and       *)
(* JSON.stringify are computed, not assumed.  An async handler is a        *)
(* closure: it works on the values its component had when it was invoked,  *)
(* and each await is a step of its own.                                    *)
(***************************************************************************)
EXTENDS Integers, Sequences, FiniteSets, TLC

VARIABLES
    store,      \* upstream: the persisted notifications
    directory,  \* upstream: the device/user directory
    list,       \* Dashboard.allNotifications (normalised copy of the store)
    sm,         \* SendNotificationModal: component state
    sh,         \* the handleSend invocation in flight (its closure)
    sv,         \* the handleSave invocation in flight (its closure)
    toast,      \* SendNotificationModal: toast state
    timers,     \* deferred closes scheduled by setTimeout(..., 1000)
    em,         \* EditScheduleModal: component state and its handler in flight
    sc,         \* ScheduleNotificationModal: component state and handler in flight
    dash,       \* Dashboard: the modal sessions opened so far
    nn,         \* NewNotification page: form state and handleSubmit in flight
    sf,         \* ScheduleNotificationModal: the fields of its new-notification form
    created,    \* the documents saveNotification has created upstream
    probe,      \* a call of one of lib/api.ts's fetch functions and what it returned
    dl          \* Dashboard: the list over upstream documents, deletingId, deletes in flight

\* the state of the create flows
createVars == <<nn, sf, created>>

vars == <<store, directory, list, sm, sh, sv, toast, timers, em, sc, dash,
          nn, sf, created, probe, dl>>

(* ------------------------------------------------------------------ *)
(* Bounds                                                              *)
(* ------------------------------------------------------------------ *)
MaxInputs == 2      \* input events (edits, selections) in one modal session
MaxSessions == 1    \* modal sessions opened in one run
MaxLoads == 1       \* loadUsers calls in flight at once
MaxTimers == 1      \* deferred closes pending at once
MaxFormInputs == 3  \* input events in one session of a create form
MaxSubmits == 2     \* submissions of the new-notification form in one run
MaxDeletes == 2     \* delete requests started in one run

(* ------------------------------------------------------------------ *)
(* Texts                                                               *)
(* ------------------------------------------------------------------ *)
SP == "sp"

RECURSIVE TrimLeft(_)
TrimLeft(s) ==
    IF s = <<>> THEN <<>>
    ELSE IF Head(s) = SP THEN TrimLeft(Tail(s)) ELSE s

RECURSIVE TrimRight(_)
TrimRight(s) ==
    IF s = <<>> THEN <<>>
    ELSE IF s[Len(s)] = SP THEN TrimRight(SubSeq(s, 1, Len(s) - 1)) ELSE s

\* String.prototype.trim
Trim(s) == TrimRight(TrimLeft(s))

\* JS truthiness of a string
Truthy(s) == s # <<>>

RECURSIVE StripSpace(_)
StripSpace(s) ==
    IF s = <<>> THEN <<>>
    ELSE IF Head(s) = SP THEN StripSpace(Tail(s))
         ELSE <<Head(s)>> \o StripSpace(Tail(s))

\* JSON values of the model: the empty object and an object with one key
EmptyObj == "{}"
Obj1 == "{k:1}"
Invalid == "invalid"
Absent == "absent"

\* JSON.parse: whitespace between tokens is insignificant; anything that is
\* not a complete object throws (Invalid)
JsonParse(s) ==
    LET t == StripSpace(s) IN
    IF t = <<"{", "}">> THEN EmptyObj
    ELSE IF t = <<"{", "k1", "}">> THEN Obj1
    ELSE Invalid

\* JSON.stringify(value, null, 2): an empty object prints as {}, a non-empty
\* one on several indented lines (the line breaks and indents are whitespace)
JsonStringify2(v) ==
    IF v = EmptyObj THEN <<"{", "}">>
    ELSE <<"{", SP, "k1", SP, "}">>

(* ------------------------------------------------------------------ *)
(* Domains                                                             *)
(* ------------------------------------------------------------------ *)
NotifIds == {"n1"}
NoTime == -1
NoGroup == "none"

\* what the operator may type into the title, body and data inputs
TitleInputs == {<<"b">>, <<"a", SP>>}
BodyInputs == {<<"n">>, <<SP>>}
DataInputs == {<<>>, <<"{", "k1", "}">>, <<"{">>}

\* times are ticks, two to the minute; the date and time inputs hold whole
\* minutes
TimeInputs == {4, 8}
MinuteOf(t) == t - (t % 2)

\* the current time (new Date()) while the operator schedules: later than
\* the earlier time the inputs may hold and than the stored schedule
Now == 6

\* upstream user groups; display names are compared in lower case
Group(id, name, tokens) == [id |-> id, name |-> name, tokens |-> tokens]
Groups == <<Group("g1", "VIP", <<"t1", "t1">>), Group("g2", "All Users", <<>>)>>
toLowerCase(name) ==
    IF name = "All Users" THEN "all users"
    ELSE IF name = "VIP" THEN "vip" ELSE name

User(id, userId, token) == [id |-> id, userId |-> userId, token |-> token]

\* upstream directories: one with the same token under two user records,
\* and one whose only record has no token
DirDup == <<User("u1", "", "t1"), User("u2", "", "t2"), User("u3", "", "t1")>>
DirNoToken == <<User("u1", "", "")>>
Directories == {DirDup, DirNoToken}

\* upstream directories whose records do not tell apart by user.id ||
\* user.userId || '': two records under one id, and two records with neither
DirSharedId == <<User("u1", "", "t1"), User("u1", "", "t2")>>
DirNoKey == <<User("", "", "t1"), User("", "", "t2")>>
SharedKeyDirectories == {DirSharedId, DirNoKey}

\* shapes of an upstream list payload: a bare array, an object with the
\* array under "users", anything else
Shapes == {"array", "users", "other"}

(* ------------------------------------------------------------------ *)
(* lib/api.ts                                                          *)
(* ------------------------------------------------------------------ *)
\* fetchUsers: the array of the response, [] for an unexpected shape and
\* [] when the request fails (the catch returns, it does not rethrow)
fetchUsers(ok, shape, items) ==
    IF ~ok THEN <<>>
    ELSE IF shape = "array" THEN items
    ELSE IF shape = "users" THEN items
    ELSE IF shape = "data" THEN items
    ELSE <<>>

\* fetchUserGroups: data.groups, else a bare array, else []; [] on failure
fetchUserGroups(ok, shape, items) ==
    IF ~ok THEN <<>>
    ELSE IF shape = "groups" THEN items
    ELSE IF shape = "array" THEN items
    ELSE <<>>

\* fetchNotifications' per-record transform (data: notif.data || {}); the
\* result carries no userGroup
NormalizeNotification(id, n) ==
    [id |-> id, title |-> n.title, body |-> n.body,
     data |-> IF n.data = Absent THEN EmptyObj ELSE n.data,
     status |-> n.status, sendAt |-> n.sendAt]

\* a request as put on the wire: `fields` names the keys the payload has
Request(kind, id, fields, vals) ==
    [kind |-> kind, id |-> id, fields |-> fields,
     title |-> IF "title" \in fields THEN vals.title ELSE <<>>,
     body |-> IF "body" \in fields THEN vals.body ELSE <<>>,
     data |-> IF "data" \in fields THEN vals.data ELSE Absent,
     status |-> IF "status" \in fields THEN vals.status ELSE "",
     sendAt |-> IF "sendAt" \in fields THEN vals.sendAt ELSE NoTime,
     userGroup |-> IF "userGroup" \in fields THEN vals.userGroup ELSE NoGroup,
     targetTokens |-> IF "targetTokens" \in fields THEN vals.targetTokens ELSE <<>>]

NoVals ==
    [title |-> <<>>, body |-> <<>>, data |-> Absent, status |-> "",
     sendAt |-> NoTime, userGroup |-> NoGroup, targetTokens |-> <<>>]

NoRequest == Request("none", "", {}, NoVals)

(* ------------------------------------------------------------------ *)
(* lib/api.ts: the fetch functions over payloads of any shape          *)
(* ------------------------------------------------------------------ *)
\* an element of an upstream array: an object with the fields named ("" is
\* a missing or empty field), null, or a primitive (a number, a string)
Elem(kind, id, docId, segmentId, status) ==
    [kind |-> kind, id |-> id, docId |-> docId, segmentId |-> segmentId,
     status |-> status, data |-> Absent, createdBy |-> "",
     hasTargetTokens |-> FALSE, targetTokens |-> <<>>, userGroup |-> ""]
ObjElem(id, docId, segmentId, status) == Elem("object", id, docId, segmentId, status)
NullElem == Elem("null", "", "", "", "")
PrimElem == Elem("prim", "", "", "", "")

\* a notification document with every field set
FullElem ==
    [ObjElem("n2", "", "", "sent") EXCEPT
        !.data = Obj1, !.createdBy = "admin", !.hasTargetTokens = TRUE,
        !.targetTokens = <<"t1">>, !.userGroup = "g1"]

\* upstream arrays: empty, of objects with and without ids, and with an
\* element that is not an object
RawLists ==
    {<<>>,
     <<ObjElem("n1", "", "s1", "sent")>>,
     <<ObjElem("", "d1", "", ""), ObjElem("", "", "", "")>>,
     <<NullElem>>,
     <<PrimElem>>,
     <<ObjElem("n1", "", "", "pending"), NullElem>>,
     <<FullElem>>}

\* shapes of a response body: a bare array, an object holding the array
\* under the field named, or anything else (an object without such a field,
\* null, a string)
PayloadShapes ==
    {"array", "users", "data", "notifications", "groups", "segments",
     "segmentsWithIds", "other"}

\* element.field: undefined ("") on a primitive and on a missing field; on
\* null it throws (see Throws)
FieldOf(e, f) == IF e.kind = "object" THEN e[f] ELSE ""

\* a map callback that reads a property of its element throws a TypeError
\* on a null element
Throws(items) == \E k \in 1..Len(items) : items[k].kind = "null"

\* `notification-${index}` and `segment-${index}`
NotificationIndexId(index) ==
    IF index = 0 THEN "notification-0"
    ELSE IF index = 1 THEN "notification-1" ELSE "notification-2"
SegmentIndexId(index) ==
    IF index = 0 THEN "segment-0"
    ELSE IF index = 1 THEN "segment-1" ELSE "segment-2"

\* a || b
Or(a, b) == IF a # "" THEN a ELSE b

\* notifications.map((notif, index) => ({id: notif.id || notif.docId ||
\* `notification-${index}`, data: notif.data || {}, createdBy:
\* notif.createdBy || 'system', targetTokens: notif.targetTokens || [],
\* status: notif.status || 'pending', ...})): a new object of these fields
MapNotifications(items) ==
    [k \in 1..Len(items) |->
        [id |-> Or(FieldOf(items[k], "id"),
                   Or(FieldOf(items[k], "docId"), NotificationIndexId(k - 1))),
         data |-> IF items[k].kind = "object" /\ items[k].data # Absent
                  THEN items[k].data ELSE EmptyObj,
         createdBy |-> Or(FieldOf(items[k], "createdBy"), "system"),
         targetTokens |-> IF items[k].kind = "object" /\ items[k].hasTargetTokens
                          THEN items[k].targetTokens ELSE <<>>,
         status |-> Or(FieldOf(items[k], "status"), "pending")]]

\* fetchNotifications: a bare array, data.notifications or data.data, mapped;
\* [] for any other shape; the catch returns [] for a failed request and for
\* an exception of the map
fetchNotifications(ok, shape, items) ==
    IF ~ok THEN <<>>
    ELSE IF shape \in {"array", "notifications", "data"}
         THEN IF Throws(items) THEN <<>> ELSE MapNotifications(items)
         ELSE <<>>

\* fetchScheduledNotifications: data.notifications or a bare array, mapped
\* the same way
fetchScheduledNotifications(ok, shape, items) ==
    IF ~ok THEN <<>>
    ELSE IF shape \in {"notifications", "array"}
         THEN IF Throws(items) THEN <<>> ELSE MapNotifications(items)
         ELSE <<>>

\* fetchSegments' map of data.segmentsWithIds: id: segment.id || ''
MapSegmentsWithIds(items) ==
    [k \in 1..Len(items) |->
        [id |-> FieldOf(items[k], "id"),
         segmentId |-> FieldOf(items[k], "segmentId")]]

\* fetchSegments' map of a bare array and of data.segments:
\* id: segment.id || segment.segmentId || `segment-${index}`
MapSegments(items) ==
    [k \in 1..Len(items) |->
        [id |-> Or(FieldOf(items[k], "id"),
                   Or(FieldOf(items[k], "segmentId"), SegmentIndexId(k - 1))),
         segmentId |-> FieldOf(items[k], "segmentId")]]

\* fetchSegments: data.segmentsWithIds, a bare array or data.segments, each
\* mapped; [] otherwise and from the catch
fetchSegments(ok, shape, items) ==
    IF ~ok THEN <<>>
    ELSE IF shape = "segmentsWithIds"
         THEN IF Throws(items) THEN <<>> ELSE MapSegmentsWithIds(items)
    ELSE IF shape \in {"array", "segments"}
         THEN IF Throws(items) THEN <<>> ELSE MapSegments(items)
    ELSE <<>>

\* fetchSegmentUsers: a bare array, data.users or data.data, returned as it
\* is; [] otherwise and from the catch
fetchSegmentUsers(ok, shape, items) ==
    IF ~ok THEN <<>>
    ELSE IF shape \in {"array", "users", "data"} THEN items
    ELSE <<>>

\* a call of a fetch function and what it returned
Probe(fn, ok, shape, items, result) ==
    [fn |-> fn, ok |-> ok, shape |-> shape, items |-> items, result |-> result]
NoProbe == Probe("none", TRUE, "other", <<>>, <<>>)

(* ------------------------------------------------------------------ *)
(* Upstream handlers (outside the repository)                          *)
(* ------------------------------------------------------------------ *)
\* updateNotificationHandler / updateOrCancelScheduledNotificationHandler:
\* a partial update writes the fields of the payload and no other
ApplyUpdate(n, req) ==
    [title |-> IF "title" \in req.fields THEN req.title ELSE n.title,
     body |-> IF "body" \in req.fields THEN req.body ELSE n.body,
     data |-> IF "data" \in req.fields THEN req.data ELSE n.data,
     status |-> IF "status" \in req.fields THEN req.status ELSE n.status,
     sendAt |-> IF "sendAt" \in req.fields THEN req.sendAt ELSE n.sendAt,
     userGroup |-> IF "userGroup" \in req.fields THEN req.userGroup ELSE n.userGroup]

\* executeNotificationHandler, on success: the notification becomes sent
ApplyExecute(n) == [n EXCEPT !.status = "sent"]

\* what the handler delivers: title, body and data of the payload override
\* the saved values; a key the payload lacks is taken from the saved copy
Delivered(n, req) ==
    [title |-> IF "title" \in req.fields THEN req.title ELSE n.title,
     body |-> IF "body" \in req.fields THEN req.body ELSE n.body,
     data |-> IF "data" \in req.fields THEN req.data
              ELSE IF n.data = Absent THEN EmptyObj ELSE n.data]

(* ------------------------------------------------------------------ *)
(* components/SendNotificationModal.tsx: the pure parts                *)
(* ------------------------------------------------------------------ *)
\* users.filter(u => u.token && typeof u.token === 'string').map(u => u.token)
RECURSIVE TokensOf(_)
TokensOf(users) ==
    IF users = <<>> THEN <<>>
    ELSE IF Head(users).token # "" THEN <<Head(users).token>> \o TokensOf(Tail(users))
         ELSE TokensOf(Tail(users))

\* const userId = user.id || user.userId || ''
UserKey(u) == IF u.id # "" THEN u.id ELSE u.userId

\* users.filter(u => selectedUsers.includes(userId))
RECURSIVE SelectedUserObjects(_, _)
SelectedUserObjects(users, selected) ==
    IF users = <<>> THEN <<>>
    ELSE IF UserKey(Head(users)) \in selected
         THEN <<Head(users)>> \o SelectedUserObjects(Tail(users), selected)
         ELSE SelectedUserObjects(Tail(users), selected)

\* recipientOption === 'all': the tokens of the directory just fetched
ResolveAll(allUsers) == TokensOf(allUsers)

\* recipientOption === 'custom': the tokens of the selected loaded users
ResolveCustom(users, selected) == TokensOf(SelectedUserObjects(users, selected))

\* handleSend without its empty check
AudienceEmptyUnchecked(tokens) == FALSE

\* if (targetTokens.length === 0) { showToast(...); return; }
AudienceEmpty(tokens) == Len(tokens) = 0

\* validateJson
validateJson(s) ==
    IF ~Truthy(Trim(s)) THEN TRUE ELSE JsonParse(s) # Invalid

\* a handleJsonChange that never reports an error
JsonErrorNever(s) == FALSE

\* handleJsonChange: the jsonError that results from a new data text
JsonErrorOf(s) == Truthy(Trim(s)) /\ ~validateJson(s)

\* title.trim() !== originalTitle, body.trim() !== originalBody,
\* jsonData.trim() !== originalData
titleChanged(c) == Trim(c.title) # c.originalTitle
bodyChanged(c) == Trim(c.body) # c.originalBody
dataChanged(c) == Trim(c.jsonData) # c.originalData
wasEdited(c) == titleChanged(c) \/ bodyChanged(c) \/ dataChanged(c)

\* jsonData.trim() ? JSON.parse(jsonData) : {}
DataOrEmpty(jsonData) ==
    IF Truthy(Trim(jsonData)) THEN JsonParse(jsonData) ELSE EmptyObj

\* the keys handleSend puts into updatePayload besides notificationId
UpdateFields(c) ==
    (IF titleChanged(c) THEN {"title"} ELSE {})
    \cup (IF bodyChanged(c) THEN {"body"} ELSE {})
    \cup (IF dataChanged(c) THEN {"data"} ELSE {})

\* an updatePayload that marks the notification sent ahead of the dispatch
SendUpdatePayloadMarksSent(c) ==
    Request("update", c.id, UpdateFields(c) \cup {"status"},
            [NoVals EXCEPT !.title = Trim(c.title), !.body = Trim(c.body),
                           !.data = DataOrEmpty(c.jsonData), !.status = "sent"])

\* handleSend's updatePayload
SendUpdatePayload(c) ==
    Request("update", c.id, UpdateFields(c),
            [NoVals EXCEPT !.title = Trim(c.title), !.body = Trim(c.body),
                           !.data = DataOrEmpty(c.jsonData)])

\* the keys of handleSend's execution payload besides notificationId
ExecFields(c) ==
    {"targetTokens", "title", "body"}
    \cup (IF Truthy(Trim(c.jsonData)) THEN {"data"} ELSE {})

\* handleSend's execution payload
ExecPayload(c, tokens) ==
    Request("execute", c.id, ExecFields(c),
            [NoVals EXCEPT !.targetTokens = tokens, !.title = Trim(c.title),
                           !.body = Trim(c.body), !.data = JsonParse(c.jsonData)])

\* handleSave's updatePayload: title, body and data, always
SavePayload(c) ==
    Request("update", c.id, {"title", "body", "data"},
            [NoVals EXCEPT !.title = Trim(c.title), !.body = Trim(c.body),
                           !.data = DataOrEmpty(c.jsonData)])

\* Send and Save buttons that look at the in-flight flags only
SendButtonsUnvalidated ==
    /\ sm.isOpen
    /\ ~sm.isSending /\ ~sm.isSaving

\* Send and Save buttons that stay enabled while a send or save is in flight
SendButtonsWhileInFlight ==
    /\ sm.isOpen
    /\ ~sm.jsonError
    /\ Truthy(Trim(sm.title)) /\ Truthy(Trim(sm.body))

\* disabled={isSending || isSaving || !!jsonError || !title.trim() || !body.trim()}
SendButtonsEnabled ==
    /\ sm.isOpen
    /\ ~sm.isSending /\ ~sm.isSaving /\ ~sm.jsonError
    /\ Truthy(Trim(sm.title)) /\ Truthy(Trim(sm.body))

\* the component values a handler invoked now closes over
Capture ==
    [id |-> sm.notification.id, title |-> sm.title, body |-> sm.body,
     jsonData |-> sm.jsonData, originalTitle |-> sm.originalTitle,
     originalBody |-> sm.originalBody, originalData |-> sm.originalData]

NoCapture ==
    [id |-> "", title |-> <<>>, body |-> <<>>, jsonData |-> <<>>,
     originalTitle |-> <<>>, originalBody |-> <<>>, originalData |-> <<>>]

NoNotification ==
    [id |-> "", title |-> <<>>, body |-> <<>>, data |-> EmptyObj,
     status |-> "", sendAt |-> NoTime]

Toast(message, type) == [message |-> message, type |-> type]

\* how the last request of a modal settled, and the persisted status it met
Settle(kind, ok, was) == [kind |-> kind, ok |-> ok, was |-> was]
NoSettle == Settle("none", FALSE, "")

(* ------------------------------------------------------------------ *)
(* Create flows: initial state                                         *)
(* ------------------------------------------------------------------ *)
\* NewNotification's useState values; no handleSubmit in flight
InitNewNotification ==
    [title |-> <<>>, body |-> <<>>, jsonData |-> <<>>, jsonError |-> FALSE,
     selectedUserGroup |-> "", isSubmitting |-> FALSE, inputs |-> 0,
     submits |-> 0, pc |-> "idle", req |-> NoRequest,
     toast |-> Toast("", "success")]

\* ScheduleNotificationModal's new-notification form after the reset effect
EmptyForm ==
    [title |-> <<>>, body |-> <<>>, jsonData |-> <<>>, jsonError |-> FALSE,
     inputs |-> 0]

(* ------------------------------------------------------------------ *)
(* pages/Dashboard.tsx: the delete flow, initial state                 *)
(* ------------------------------------------------------------------ *)
\* the dashboard as mounted: loadNotifications in flight, deletingId null
\* (""), no handleDelete in flight; docs are the upstream's documents
InitDashboard(docs) ==
    [docs |-> docs, items |-> <<>>, loading |-> TRUE, deletingId |-> "",
     calls |-> <<>>, started |-> 0, toast |-> Toast("", "success")]

(* ------------------------------------------------------------------ *)
(* Initial state                                                       *)
(* ------------------------------------------------------------------ *)
\* sm.toggled is no state of the component: it records the positions in the
\* user list whose checkbox the operator has clicked an odd number of times
\* no handleSend in flight; tokens, issued and updateOk are what the last
\* invocation left
IdleSend ==
    [pc |-> "idle", c |-> NoCapture, tokens |-> <<>>, resolved |-> FALSE,
     req |-> NoRequest, issued |-> <<>>, updateOk |-> "none",
     before |-> NoNotification]

IdleSave == [pc |-> "idle", c |-> NoCapture, req |-> NoRequest]

InitSendModal ==
    [isOpen |-> FALSE, notification |-> NoNotification,
     title |-> <<>>, body |-> <<>>, jsonData |-> <<>>, jsonError |-> FALSE,
     recipientOption |-> "all", users |-> <<>>, selectedUsers |-> {},
     toggled |-> {},
     loads |-> 0, isSending |-> FALSE, isSaving |-> FALSE,
     originalTitle |-> <<>>, originalBody |-> <<>>, originalData |-> <<>>,
     inputs |-> 0]

InitEditModal ==
    [isOpen |-> FALSE, notification |-> NoNotification, sendAt |-> NoTime,
     selectedUserGroup |-> "", userGroups |-> <<>>, loads |-> 0,
     isUpdating |-> FALSE, isCanceling |-> FALSE, inputs |-> 0,
     pc |-> "idle", req |-> NoRequest, before |-> "", last |-> NoSettle,
     toast |-> Toast("", "success")]

InitScheduleModal ==
    [isOpen |-> FALSE, step |-> "choice", notifications |-> <<>>, loads |-> 0,
     selectedNotification |-> NoNotification, sendAt |-> NoTime,
     selectedUserGroup |-> "", isSaving |-> FALSE, inputs |-> 0,
     pc |-> "idle", req |-> NoRequest, before |-> "", last |-> NoSettle,
     toast |-> Toast("", "success")]

Stored(title, data, status, sendAt, userGroup) ==
    [title |-> title, body |-> <<"o">>, data |-> data, status |-> status,
     sendAt |-> sendAt, userGroup |-> userGroup]

\* the notifications the store may hold when the console is opened: a saved
\* one, and a scheduled one whose title was stored with a leading blank
StoredNotifications ==
    {Stored(<<"a">>, Obj1, "pending", NoTime, NoGroup),
     Stored(<<SP, "a">>, EmptyObj, "pending", 5, "g1")}

\* the modal sessions opened so far, and how many a run may open
InitSessions(budget) == [sessions |-> 0, budget |-> budget]

\* timers.sendSession and timers.editSession are no state of the program:
\* they record how many sessions had been opened when the pending deferred
\* close was set
\* everything but the directory, the sessions and the dashboard's delete flow
InitOthers ==
    /\ store \in [NotifIds -> StoredNotifications]
    /\ list = [items |-> <<>>, loading |-> TRUE]
    /\ sm = InitSendModal
    /\ sh = IdleSend
    /\ sv = IdleSave
    /\ toast = Toast("", "success")
    /\ timers = [send |-> 0, edit |-> 0, schedule |-> 0,
                 sendSession |-> 0, editSession |-> 0]
    /\ em = InitEditModal
    /\ sc = InitScheduleModal
    /\ nn = InitNewNotification
    /\ sf = EmptyForm
    /\ created = <<>>
    /\ probe = NoProbe

Init ==
    /\ InitOthers /\ directory \in Directories /\ dl = InitDashboard(<<>>)
    /\ dash = InitSessions(MaxSessions)

\* a run in which a modal can be opened again after its first session
InitReopen ==
    /\ InitOthers /\ directory = DirDup /\ dl = InitDashboard(<<>>)
    /\ dash = InitSessions(MaxSessions + 1)

\* the console over a directory whose records share their selection key
InitSelect ==
    /\ InitOthers /\ directory \in SharedKeyDirectories /\ dl = InitDashboard(<<>>)
    /\ dash = InitSessions(MaxSessions)

\* the dashboard mounted over upstream documents with and without ids
InitDelete ==
    /\ InitOthers /\ directory \in Directories
    /\ dl \in {InitDashboard(docs) : docs \in RawLists}
    /\ dash = InitSessions(MaxSessions)

(* ------------------------------------------------------------------ *)
(* pages/Dashboard.tsx                                                 *)
(* ------------------------------------------------------------------ *)
\* a modal's backdrop covers the dashboard's controls
AnyModalOpen == sm.isOpen \/ em.isOpen \/ sc.isOpen

\* the notifications of the store as fetchNotifications returns them
RECURSIVE FetchedList(_)
FetchedList(ids) ==
    IF ids = {} THEN <<>>
    ELSE LET id == CHOOSE x \in ids : TRUE
         IN <<NormalizeNotification(id, store[id])>> \o FetchedList(ids \ {id})

\* loadNotifications, when fetchNotifications settles
LoadNotificationsDone ==
    /\ list.loading
    /\ list' = [items |-> FetchedList(NotifIds), loading |-> FALSE]
    /\ UNCHANGED <<dl, probe, createVars, store, directory, sm, sh, sv, toast, timers, em, sc, dash>>

\* handleSend(notification): opens the send modal; the modal's effect on
\* [notification, isOpen] starts the edit session, and its effect on
\* [isOpen, recipientOption] still sees the previous recipientOption
OpenSend(i) ==
    /\ ~AnyModalOpen
    /\ ~list.loading
    /\ i \in 1..Len(list.items)
    /\ dash.sessions < dash.budget
    /\ sm.recipientOption = "custom" => sm.loads < MaxLoads
    /\ LET n == list.items[i]
           initialData == IF n.data # Absent THEN JsonStringify2(n.data) ELSE <<>>
       IN sm' = [sm EXCEPT !.isOpen = TRUE, !.notification = n,
                           !.title = n.title, !.body = n.body,
                           !.jsonData = initialData,
                           !.originalTitle = n.title, !.originalBody = n.body,
                           !.originalData = initialData,
                           !.jsonError = FALSE, !.recipientOption = "all",
                           !.selectedUsers = {}, !.toggled = {},
                           !.loads = IF sm.recipientOption = "custom" THEN @ + 1 ELSE @,
                           !.inputs = 0]
    /\ dash' = [dash EXCEPT !.sessions = @ + 1]
    /\ UNCHANGED <<dl, probe, createVars, store, directory, list, sh, sv, toast, timers, em, sc>>

\* onClose from the backdrop or the X button (neither is ever disabled)
CloseSend ==
    /\ sm.isOpen
    /\ sm' = [sm EXCEPT !.isOpen = FALSE]
    /\ UNCHANGED <<dl, probe, createVars, store, directory, list, sh, sv, toast, timers, em, sc, dash>>

\* the deferred close of a successful send: onClose(), then onSuccess()
\* (handleSendSuccess reloads the list)
SendTimerFires ==
    /\ timers.send > 0
    /\ timers' = [timers EXCEPT !.send = @ - 1, !.sendSession = 0]
    /\ sm' = [sm EXCEPT !.isOpen = FALSE]
    /\ list' = [list EXCEPT !.loading = TRUE]
    /\ UNCHANGED <<dl, probe, createVars, store, directory, sh, sv, toast, em, sc, dash>>

(* ------------------------------------------------------------------ *)
(* components/SendNotificationModal.tsx: the inputs                    *)
(* ------------------------------------------------------------------ *)
\* onChange of the title input
EditTitle(v) ==
    /\ sm.isOpen /\ sm.inputs < MaxInputs
    /\ sm' = [sm EXCEPT !.title = v, !.inputs = @ + 1]
    /\ UNCHANGED <<dl, probe, createVars, store, directory, list, sh, sv, toast, timers, em, sc, dash>>

\* onChange of the body input
EditBody(v) ==
    /\ sm.isOpen /\ sm.inputs < MaxInputs
    /\ sm' = [sm EXCEPT !.body = v, !.inputs = @ + 1]
    /\ UNCHANGED <<dl, probe, createVars, store, directory, list, sh, sv, toast, timers, em, sc, dash>>

\* handleJsonChange
EditJson(v) ==
    /\ sm.isOpen /\ sm.inputs < MaxInputs
    /\ sm' = [sm EXCEPT !.jsonData = v, !.jsonError = JsonErrorOf(v), !.inputs = @ + 1]
    /\ UNCHANGED <<dl, probe, createVars, store, directory, list, sh, sv, toast, timers, em, sc, dash>>

\* onChange of the "Send To" select; the effect on [isOpen, recipientOption]
\* calls loadUsers when the option becomes 'custom'
SetRecipient(opt) ==
    /\ sm.isOpen /\ sm.inputs < MaxInputs
    /\ opt # sm.recipientOption
    /\ opt = "custom" => sm.loads < MaxLoads
    /\ sm' = [sm EXCEPT !.recipientOption = opt,
                        !.loads = IF opt = "custom" THEN @ + 1 ELSE @,
                        !.inputs = @ + 1]
    /\ UNCHANGED <<dl, probe, createVars, store, directory, list, sh, sv, toast, timers, em, sc, dash>>

\* loadUsers, when fetchUsers settles (it never rejects)
LoadUsersDone(ok, shape) ==
    /\ sm.loads > 0
    /\ sm' = [sm EXCEPT !.users = fetchUsers(ok, shape, directory), !.loads = @ - 1]
    /\ UNCHANGED <<dl, probe, createVars, store, directory, list, sh, sv, toast, timers, em, sc, dash>>

\* handleUserToggle, from the checkbox of a listed user
ToggleUser(i) ==
    /\ sm.isOpen /\ sm.inputs < MaxInputs
    /\ sm.recipientOption = "custom" /\ sm.loads = 0
    /\ i \in 1..Len(sm.users)
    /\ LET userId == UserKey(sm.users[i])
       IN sm' = [sm EXCEPT !.selectedUsers =
                               IF userId \in @ THEN @ \ {userId} ELSE @ \cup {userId},
                           !.toggled = IF i \in @ THEN @ \ {i} ELSE @ \cup {i},
                           !.inputs = @ + 1]
    /\ UNCHANGED <<dl, probe, createVars, store, directory, list, sh, sv, toast, timers, em, sc, dash>>

(* ------------------------------------------------------------------ *)
(* components/SendNotificationModal.tsx: handleSend                    *)
(* ------------------------------------------------------------------ *)
FetchUsersRequest == Request("fetchUsers", "", {}, NoVals)

\* an invocation that ends without its finally block
SendEndsKeepsFlag(tokens, issued, updateOk, message, type) ==
    /\ sh' = [IdleSend EXCEPT !.tokens = tokens, !.resolved = TRUE,
                              !.issued = issued, !.updateOk = updateOk]
    /\ sm' = sm
    /\ toast' = Toast(message, type)

\* the invocation ends: the finally block, and the toast it showed
SendEnds(tokens, issued, updateOk, message, type) ==
    /\ sh' = [IdleSend EXCEPT !.tokens = tokens, !.resolved = TRUE,
                              !.issued = issued, !.updateOk = updateOk]
    /\ sm' = [sm EXCEPT !.isSending = FALSE]
    /\ toast' = Toast(message, type)

\* await executeNotification(payload)
SendIssuesExecute(c, tokens, issued, updateOk, before) ==
    /\ sh' = [pc |-> "exec", c |-> c, tokens |-> tokens, resolved |-> TRUE,
              req |-> ExecPayload(c, tokens), issued |-> Append(issued, "execute"),
              updateOk |-> updateOk, before |-> before]
    /\ sm' = [sm EXCEPT !.isSending = TRUE]
    /\ UNCHANGED toast

\* await updateNotification(updatePayload)
SendIssuesUpdate(c, tokens, issued, before) ==
    /\ sh' = [pc |-> "update", c |-> c, tokens |-> tokens, resolved |-> TRUE,
              req |-> SendUpdatePayload(c), issued |-> Append(issued, "update"),
              updateOk |-> "none", before |-> before]
    /\ sm' = [sm EXCEPT !.isSending = TRUE]
    /\ UNCHANGED toast

\* a handleSend that dispatches without reconciling the edits first
SendResolvedSkipsUpdate(c, tokens, issued, before) ==
    IF AudienceEmpty(tokens)
    THEN SendEnds(tokens, issued, "none",
                  "No valid tokens found for selected users", "error")
    ELSE SendIssuesExecute(c, tokens, issued, "none", before)

\* handleSend from the tokens on: the empty check, then the update if the
\* notification was edited and has an id, else the dispatch at once
SendResolved(c, tokens, issued, before) ==
    IF AudienceEmpty(tokens)
    THEN SendEnds(tokens, issued, "none",
                  "No valid tokens found for selected users", "error")
    ELSE IF wasEdited(c) /\ c.id # ""
         THEN SendIssuesUpdate(c, tokens, issued, before)
         ELSE SendIssuesExecute(c, tokens, issued, "none", before)

\* the Send button, recipientOption 'all': await fetchUsers()
SendClickAll ==
    /\ SendButtonsEnabled
    /\ sm.recipientOption = "all"
    /\ sh' = [pc |-> "fetch", c |-> Capture, tokens |-> <<>>, resolved |-> FALSE,
              req |-> FetchUsersRequest, issued |-> <<"fetchUsers">>,
              updateOk |-> "none", before |-> store[sm.notification.id]]
    /\ sm' = [sm EXCEPT !.isSending = TRUE]
    /\ UNCHANGED <<dl, probe, createVars, store, directory, list, sv, toast, timers, em, sc, dash>>

\* the Send button, recipientOption 'custom': the tokens come from the
\* loaded users, without an await
SendClickCustom ==
    /\ SendButtonsEnabled
    /\ sm.recipientOption = "custom"
    /\ SendResolved(Capture, ResolveCustom(sm.users, sm.selectedUsers), <<>>,
                    store[sm.notification.id])
    /\ UNCHANGED <<dl, probe, createVars, store, directory, list, sv, timers, em, sc, dash>>

\* fetchUsers settles with the upstream's answer
SendFetchOk(shape) ==
    /\ sh.pc = "fetch"
    /\ SendResolved(sh.c, ResolveAll(fetchUsers(TRUE, shape, directory)), sh.issued,
                    sh.before)
    /\ UNCHANGED <<dl, probe, createVars, store, directory, list, sv, timers, em, sc, dash>>

\* the request of fetchUsers fails
SendFetchFailed ==
    /\ sh.pc = "fetch"
    /\ SendResolved(sh.c, ResolveAll(fetchUsers(FALSE, "other", <<>>)), sh.issued,
                    sh.before)
    /\ UNCHANGED <<dl, probe, createVars, store, directory, list, sv, timers, em, sc, dash>>

\* updateNotification resolves: the upstream wrote the fields of the payload
SendUpdateOk ==
    /\ sh.pc = "update"
    /\ store' = [store EXCEPT ![sh.c.id] = ApplyUpdate(@, sh.req)]
    /\ SendIssuesExecute(sh.c, sh.tokens, sh.issued, "ok", sh.before)
    /\ UNCHANGED <<dl, probe, createVars, directory, list, sv, timers, em, sc, dash>>

\* updateNotification rejects: the inner catch logs, and handleSend goes on
SendUpdateFailed ==
    /\ sh.pc = "update"
    /\ SendIssuesExecute(sh.c, sh.tokens, sh.issued, "failed", sh.before)
    /\ UNCHANGED <<dl, probe, createVars, store, directory, list, sv, timers, em, sc, dash>>

\* executeNotification resolves: success toast and the deferred close
SendExecOk ==
    /\ sh.pc = "exec"
    /\ timers.send < MaxTimers
    /\ store' = [store EXCEPT ![sh.c.id] = ApplyExecute(@)]
    /\ SendEnds(sh.tokens, sh.issued, sh.updateOk,
                "Notification sent successfully!", "success")
    /\ timers' = [timers EXCEPT !.send = @ + 1, !.sendSession = dash.sessions]
    /\ UNCHANGED <<dl, probe, createVars, directory, list, sv, em, sc, dash>>

\* an outer catch that records the notification as sent all the same
SendExecFailedMarksSent ==
    /\ sh.pc = "exec"
    /\ store' = [store EXCEPT ![sh.c.id].status = "sent"]
    /\ SendEnds(sh.tokens, sh.issued, sh.updateOk,
                "Failed to send notification", "error")
    /\ UNCHANGED <<dl, probe, createVars, directory, list, sv, timers, em, sc, dash>>

\* executeNotification rejects: the outer catch
SendExecFailed ==
    /\ sh.pc = "exec"
    /\ SendEnds(sh.tokens, sh.issued, sh.updateOk,
                "Failed to send notification", "error")
    /\ UNCHANGED <<dl, probe, createVars, store, directory, list, sv, timers, em, sc, dash>>

(* ------------------------------------------------------------------ *)
(* components/SendNotificationModal.tsx: handleSave                    *)
(* ------------------------------------------------------------------ *)
\* the Save button: await updateNotification(updatePayload)
SaveClick ==
    /\ SendButtonsEnabled
    /\ sm.notification.id # ""
    /\ sv' = [pc |-> "update", c |-> Capture, req |-> SavePayload(Capture)]
    /\ sm' = [sm EXCEPT !.isSaving = TRUE]
    /\ UNCHANGED <<dl, probe, createVars, store, directory, list, sh, toast, timers, em, sc, dash>>

\* a save whose success leaves the baseline where it was
SaveOkKeepsBaseline ==
    /\ sv.pc = "update"
    /\ store' = [store EXCEPT ![sv.c.id] = ApplyUpdate(@, sv.req)]
    /\ sm' = [sm EXCEPT !.isSaving = FALSE]
    /\ toast' = Toast("Notification saved successfully!", "success")
    /\ list' = [list EXCEPT !.loading = TRUE]
    /\ sv' = IdleSave
    /\ UNCHANGED <<dl, probe, createVars, directory, sh, timers, em, sc, dash>>

\* updateNotification resolves: the baseline becomes what was saved, and
\* onSuccess reloads the dashboard's list
SaveOk ==
    /\ sv.pc = "update"
    /\ store' = [store EXCEPT ![sv.c.id] = ApplyUpdate(@, sv.req)]
    /\ sm' = [sm EXCEPT !.originalTitle = Trim(sv.c.title),
                        !.originalBody = Trim(sv.c.body),
                        !.originalData = Trim(sv.c.jsonData),
                        !.isSaving = FALSE]
    /\ toast' = Toast("Notification saved successfully!", "success")
    /\ list' = [list EXCEPT !.loading = TRUE]
    /\ sv' = IdleSave
    /\ UNCHANGED <<dl, probe, createVars, directory, sh, timers, em, sc, dash>>

\* updateNotification rejects
SaveFailed ==
    /\ sv.pc = "update"
    /\ sm' = [sm EXCEPT !.isSaving = FALSE]
    /\ toast' = Toast("Failed to save notification", "error")
    /\ sv' = IdleSave
    /\ UNCHANGED <<dl, probe, createVars, store, directory, list, sh, timers, em, sc, dash>>

(* ------------------------------------------------------------------ *)
(* components/EditScheduleModal.tsx                                    *)
(* ------------------------------------------------------------------ *)
\* the groups offered by the select: all but the one displayed as "All Users"
RECURSIVE VisibleGroups(_)
VisibleGroups(groups) ==
    IF groups = <<>> THEN {}
    ELSE (IF toLowerCase(Head(groups).name) # "all users" THEN {Head(groups).id} ELSE {})
         \cup VisibleGroups(Tail(groups))

\* the pencil of a dashboard row:
\* notification.sendAt && (notification.status === 'pending' || !notification.status)
EditControlShown(n) == n.sendAt # NoTime /\ (n.status = "pending" \/ n.status = "")

\* handleEditSchedule(notification): opens the modal; its effect fills the
\* date and time (to the minute) and the group, and loads the user groups
OpenEdit(i) ==
    /\ ~AnyModalOpen
    /\ ~list.loading
    /\ i \in 1..Len(list.items)
    /\ EditControlShown(list.items[i])
    /\ dash.sessions < dash.budget
    /\ em.loads < MaxLoads
    /\ LET n == list.items[i]
       IN em' = [em EXCEPT !.isOpen = TRUE, !.notification = n,
                           !.sendAt = IF n.sendAt # NoTime THEN MinuteOf(n.sendAt) ELSE @,
                           !.selectedUserGroup = "allUsers",
                           !.loads = @ + 1, !.inputs = 0]
    /\ dash' = [dash EXCEPT !.sessions = @ + 1]
    /\ UNCHANGED <<dl, probe, createVars, store, directory, list, sm, sh, sv, toast, timers, sc>>

\* loadUserGroups, when fetchUserGroups settles (it never rejects)
EditGroupsLoaded(ok, shape) ==
    /\ em.loads > 0
    /\ em' = [em EXCEPT !.userGroups = fetchUserGroups(ok, shape, Groups),
                        !.loads = @ - 1]
    /\ UNCHANGED <<dl, probe, createVars, store, directory, list, sm, sh, sv, toast, timers, sc, dash>>

\* onChange of the date and time inputs
EditSetSendAt(t) ==
    /\ em.isOpen /\ em.inputs < MaxInputs
    /\ em' = [em EXCEPT !.sendAt = t, !.inputs = @ + 1]
    /\ UNCHANGED <<dl, probe, createVars, store, directory, list, sm, sh, sv, toast, timers, sc, dash>>

\* onChange of the user group select
EditSetGroup(g) ==
    /\ em.isOpen /\ em.inputs < MaxInputs
    /\ g \in {"allUsers"} \cup (IF em.loads = 0 THEN VisibleGroups(em.userGroups) ELSE {})
    /\ g # em.selectedUserGroup
    /\ em' = [em EXCEPT !.selectedUserGroup = g, !.inputs = @ + 1]
    /\ UNCHANGED <<dl, probe, createVars, store, directory, list, sm, sh, sv, toast, timers, sc, dash>>

\* onClose from the backdrop or the X button
CloseEdit ==
    /\ em.isOpen
    /\ em' = [em EXCEPT !.isOpen = FALSE]
    /\ UNCHANGED <<dl, probe, createVars, store, directory, list, sm, sh, sv, toast, timers, sc, dash>>

\* the updates handleUpdate sends: sendAt and userGroup
UpdateSchedulePayload(id, sendAt, group) ==
    Request("updateOrCancel", id, {"sendAt", "userGroup"},
            [NoVals EXCEPT !.sendAt = sendAt,
                           !.userGroup = IF group # "" THEN group ELSE "allUsers"])

\* a cancel that also writes the date and time of the form
CancelPayloadWithSchedule(id) ==
    Request("updateOrCancel", id, {"status", "sendAt"},
            [NoVals EXCEPT !.status = "cancelled", !.sendAt = em.sendAt])

\* the updates handleCancel sends: status 'cancelled'
CancelPayload(id) ==
    Request("updateOrCancel", id, {"status"}, [NoVals EXCEPT !.status = "cancelled"])

\* disabled={isUpdating || isCanceling || !sendAtDate || !sendAtTime}
UpdateButtonEnabled ==
    em.isOpen /\ ~em.isUpdating /\ ~em.isCanceling /\ em.sendAt # NoTime

\* disabled={isUpdating || isCanceling}
CancelButtonEnabled == em.isOpen /\ ~em.isUpdating /\ ~em.isCanceling

\* handleUpdate: await updateOrCancelScheduledNotification(...)
handleUpdate ==
    /\ UpdateButtonEnabled
    /\ em.notification.id # ""
    /\ em' = [em EXCEPT !.isUpdating = TRUE, !.pc = "update",
                        !.req = UpdateSchedulePayload(em.notification.id, em.sendAt,
                                                      em.selectedUserGroup),
                        !.before = store[em.notification.id].status]
    /\ UNCHANGED <<dl, probe, createVars, store, directory, list, sm, sh, sv, toast, timers, sc, dash>>

\* handleCancel, confirmed: await updateOrCancelScheduledNotification(...)
handleCancel ==
    /\ CancelButtonEnabled
    /\ em.notification.id # ""
    /\ em' = [em EXCEPT !.isCanceling = TRUE, !.pc = "cancel",
                        !.req = CancelPayload(em.notification.id),
                        !.before = store[em.notification.id].status]
    /\ UNCHANGED <<dl, probe, createVars, store, directory, list, sm, sh, sv, toast, timers, sc, dash>>

\* the request of handleUpdate or handleCancel resolves: success toast and
\* the deferred close
EditRequestOk ==
    /\ em.pc # "idle"
    /\ timers.edit < MaxTimers
    /\ store' = [store EXCEPT ![em.req.id] = ApplyUpdate(@, em.req)]
    /\ em' = [em EXCEPT !.isUpdating = FALSE, !.isCanceling = FALSE, !.pc = "idle",
                        !.req = NoRequest, !.before = "",
                        !.last = Settle(em.pc, TRUE, store[em.req.id].status),
                        !.toast = IF em.pc = "update"
                                  THEN Toast("Schedule updated successfully!", "success")
                                  ELSE Toast("Scheduled notification cancelled successfully!",
                                             "success")]
    /\ timers' = [timers EXCEPT !.edit = @ + 1, !.editSession = dash.sessions]
    /\ UNCHANGED <<dl, probe, createVars, directory, list, sm, sh, sv, toast, sc, dash>>

\* the request of handleUpdate or handleCancel rejects
EditRequestFailed ==
    /\ em.pc # "idle"
    /\ em' = [em EXCEPT !.isUpdating = FALSE, !.isCanceling = FALSE, !.pc = "idle",
                        !.req = NoRequest, !.before = "",
                        !.last = Settle(em.pc, FALSE, store[em.req.id].status),
                        !.toast = IF em.pc = "update"
                                  THEN Toast("Failed to update schedule", "error")
                                  ELSE Toast("Failed to cancel schedule", "error")]
    /\ UNCHANGED <<dl, probe, createVars, store, directory, list, sm, sh, sv, toast, timers, sc, dash>>

\* the deferred close: onClose(), then handleEditScheduleSuccess
EditTimerFires ==
    /\ timers.edit > 0
    /\ timers' = [timers EXCEPT !.edit = @ - 1, !.editSession = 0]
    /\ em' = [em EXCEPT !.isOpen = FALSE]
    /\ list' = [list EXCEPT !.loading = TRUE]
    /\ UNCHANGED <<dl, probe, createVars, store, directory, sm, sh, sv, toast, sc, dash>>

(* ------------------------------------------------------------------ *)
(* components/ScheduleNotificationModal.tsx: schedule an existing one  *)
(* ------------------------------------------------------------------ *)
\* the "Schedule Notification" button of the dashboard; the modal's effect
\* on [isOpen] resets the flow
OpenSchedule ==
    /\ ~AnyModalOpen
    /\ dash.sessions < dash.budget
    /\ sc' = [sc EXCEPT !.isOpen = TRUE, !.step = "choice",
                        !.selectedNotification = NoNotification,
                        !.sendAt = NoTime, !.selectedUserGroup = "", !.inputs = 0]
    /\ sf' = EmptyForm
    /\ dash' = [dash EXCEPT !.sessions = @ + 1]
    /\ UNCHANGED <<dl, probe, nn, created, store, directory, list, sm, sh, sv, toast, timers, em>>

\* setStep('existing'); the effect on [step] loads the notifications when
\* the modal holds none
ChooseExisting ==
    /\ sc.isOpen /\ sc.step = "choice"
    /\ sc.notifications = <<>> => sc.loads < MaxLoads
    /\ sc' = [sc EXCEPT !.step = "existing",
                        !.loads = IF sc.notifications = <<>> THEN @ + 1 ELSE @]
    /\ UNCHANGED <<dl, probe, createVars, store, directory, list, sm, sh, sv, toast, timers, em, dash>>

\* the back arrow: setStep('choice')
ScheduleBack ==
    /\ sc.isOpen /\ sc.step # "choice"
    /\ sc' = [sc EXCEPT !.step = "choice"]
    /\ UNCHANGED <<dl, probe, createVars, store, directory, list, sm, sh, sv, toast, timers, em, dash>>

\* the modal's loadNotifications, when fetchNotifications settles (it never
\* rejects: [] on failure)
ScheduleNotificationsLoaded(ok) ==
    /\ sc.loads > 0
    /\ sc' = [sc EXCEPT !.notifications = IF ok THEN FetchedList(NotifIds) ELSE <<>>,
                        !.loads = @ - 1]
    /\ UNCHANGED <<dl, probe, createVars, store, directory, list, sm, sh, sv, toast, timers, em, dash>>

\* a row of the list: setSelectedNotification(notif); every notification
\* the modal holds is listed, whatever its status
SelectNotification(i) ==
    /\ sc.isOpen /\ sc.step = "existing" /\ sc.loads = 0
    /\ sc.inputs < MaxInputs
    /\ i \in 1..Len(sc.notifications)
    /\ sc' = [sc EXCEPT !.selectedNotification = sc.notifications[i],
                        !.inputs = @ + 1]
    /\ UNCHANGED <<dl, probe, createVars, store, directory, list, sm, sh, sv, toast, timers, em, dash>>

\* onChange of the date and time inputs
ScheduleSetSendAt(t) ==
    /\ sc.isOpen /\ sc.step = "existing"
    /\ sc.inputs < MaxInputs
    /\ sc' = [sc EXCEPT !.sendAt = t, !.inputs = @ + 1]
    /\ UNCHANGED <<dl, probe, createVars, store, directory, list, sm, sh, sv, toast, timers, em, dash>>

\* onClose from the backdrop or the X button
CloseSchedule ==
    /\ sc.isOpen
    /\ sc' = [sc EXCEPT !.isOpen = FALSE]
    /\ UNCHANGED <<dl, probe, createVars, store, directory, list, sm, sh, sv, toast, timers, em, dash>>

\* handleScheduleExisting's payload: sendAt, status 'pending' and userGroup
ScheduleExistingPayload(id, sendAt, group) ==
    Request("update", id, {"sendAt", "status", "userGroup"},
            [NoVals EXCEPT !.sendAt = sendAt, !.status = "pending",
                           !.userGroup = IF group # "" THEN group ELSE "allUsers"])

\* disabled={isSaving || !!jsonError || (step === 'existing' &&
\* !selectedNotification) || !sendAtDate || !sendAtTime}
ScheduleButtonEnabled ==
    /\ sc.isOpen /\ sc.step = "existing" /\ ~sc.isSaving
    /\ sc.selectedNotification # NoNotification
    /\ sc.sendAt # NoTime

\* handleScheduleExisting: await updateNotification(...)
handleScheduleExisting ==
    /\ ScheduleButtonEnabled
    /\ sc' = [sc EXCEPT !.isSaving = TRUE, !.pc = "schedule",
                        !.req = ScheduleExistingPayload(sc.selectedNotification.id,
                                                        sc.sendAt, sc.selectedUserGroup),
                        !.before = store[sc.selectedNotification.id].status]
    /\ UNCHANGED <<dl, probe, createVars, store, directory, list, sm, sh, sv, toast, timers, em, dash>>

\* updateNotification resolves: success toast and the deferred close
ScheduleRequestOk ==
    /\ sc.pc = "schedule"
    /\ timers.schedule < MaxTimers
    /\ store' = [store EXCEPT ![sc.req.id] = ApplyUpdate(@, sc.req)]
    /\ sc' = [sc EXCEPT !.isSaving = FALSE, !.pc = "idle", !.req = NoRequest,
                        !.before = "",
                        !.last = Settle(sc.pc, TRUE, store[sc.req.id].status),
                        !.toast = Toast("Notification scheduled successfully!", "success")]
    /\ timers' = [timers EXCEPT !.schedule = @ + 1]
    /\ UNCHANGED <<dl, probe, createVars, directory, list, sm, sh, sv, toast, em, dash>>

\* updateNotification rejects
ScheduleRequestFailed ==
    /\ sc.pc = "schedule"
    /\ sc' = [sc EXCEPT !.isSaving = FALSE, !.pc = "idle", !.req = NoRequest,
                        !.before = "",
                        !.last = Settle(sc.pc, FALSE, store[sc.req.id].status),
                        !.toast = Toast("Failed to schedule notification", "error")]
    /\ UNCHANGED <<dl, probe, createVars, store, directory, list, sm, sh, sv, toast, timers, em, dash>>

\* the deferred close: onClose(), then handleScheduleSuccess
ScheduleTimerFires ==
    /\ timers.schedule > 0
    /\ timers' = [timers EXCEPT !.schedule = @ - 1]
    /\ sc' = [sc EXCEPT !.isOpen = FALSE]
    /\ list' = [list EXCEPT !.loading = TRUE]
    /\ UNCHANGED <<dl, probe, createVars, store, directory, sm, sh, sv, toast, em, dash>>

\* the external scheduler delivers a pending notification whose time has come
SchedulerSends(id) ==
    /\ store[id].status = "pending" /\ store[id].sendAt # NoTime
    /\ store' = [store EXCEPT ![id].status = "sent"]
    /\ UNCHANGED <<dl, probe, createVars, directory, list, sm, sh, sv, toast, timers, em, sc, dash>>

(* ------------------------------------------------------------------ *)
(* pages/NewNotification.tsx: the new-notification form                *)
(* ------------------------------------------------------------------ *)
\* what the operator may type into the title and body of a new notification
NewTitleInputs == {<<"b">>, <<SP>>}
NewBodyInputs == {<<"n">>, <<SP>>}

\* saveNotificationHandler: the document created from a save request
ApplyCreate(req) ==
    [title |-> req.title, body |-> req.body, data |-> req.data,
     status |-> req.status, sendAt |-> req.sendAt, userGroup |-> req.userGroup]

\* onChange of the title input: setTitle
NewEditTitle(v) ==
    /\ nn.inputs < MaxFormInputs
    /\ nn' = [nn EXCEPT !.title = v, !.inputs = @ + 1]
    /\ UNCHANGED <<dl, store, directory, list, sm, sh, sv, toast, timers, em, sc,
                   dash, sf, created, probe>>

\* onChange of the body textarea: setBody
NewEditBody(v) ==
    /\ nn.inputs < MaxFormInputs
    /\ nn' = [nn EXCEPT !.body = v, !.inputs = @ + 1]
    /\ UNCHANGED <<dl, store, directory, list, sm, sh, sv, toast, timers, em, sc,
                   dash, sf, created, probe>>

\* handleJsonChange of the page
NewEditJson(v) ==
    /\ nn.inputs < MaxFormInputs
    /\ nn' = [nn EXCEPT !.jsonData = v, !.jsonError = JsonErrorOf(v),
                        !.inputs = @ + 1]
    /\ UNCHANGED <<dl, store, directory, list, sm, sh, sv, toast, timers, em, sc,
                   dash, sf, created, probe>>

\* the form can be submitted: the submit button is not disabled
\* (disabled={isSubmitting || !!jsonError}) and the inputs marked `required`
\* hold a value, which a blank one is
SubmitEnabled ==
    /\ ~nn.isSubmitting /\ ~nn.jsonError
    /\ nn.title # <<>> /\ nn.body # <<>>

\* handleSubmit's payload: title and body trimmed, data when the text is not
\* blank, userGroup
SubmitPayload(f) ==
    Request("save", "",
            {"title", "body", "userGroup"}
              \cup (IF Truthy(Trim(f.jsonData)) THEN {"data"} ELSE {}),
            [NoVals EXCEPT !.title = Trim(f.title), !.body = Trim(f.body),
                           !.data = JsonParse(f.jsonData),
                           !.userGroup = IF f.selectedUserGroup # ""
                                         THEN f.selectedUserGroup ELSE "allUsers"])

\* handleSubmit, up to `await saveNotification(payload)`
handleSubmit ==
    /\ SubmitEnabled
    /\ nn.submits < MaxSubmits
    /\ nn' = [nn EXCEPT !.isSubmitting = TRUE, !.pc = "save",
                        !.req = SubmitPayload(nn), !.submits = @ + 1]
    /\ UNCHANGED <<dl, store, directory, list, sm, sh, sv, toast, timers, em, sc,
                   dash, sf, created, probe>>

\* saveNotification resolves: success toast, the form is reset
SubmitOk ==
    /\ nn.pc = "save"
    /\ created' = Append(created, ApplyCreate(nn.req))
    /\ nn' = [nn EXCEPT !.title = <<>>, !.body = <<>>, !.jsonData = <<>>,
                        !.jsonError = FALSE, !.selectedUserGroup = "",
                        !.isSubmitting = FALSE, !.pc = "idle", !.req = NoRequest,
                        !.toast = Toast("Notification saved successfully!", "success")]
    /\ UNCHANGED <<dl, store, directory, list, sm, sh, sv, toast, timers, em, sc,
                   dash, sf, probe>>

\* saveNotification rejects
SubmitFailed ==
    /\ nn.pc = "save"
    /\ nn' = [nn EXCEPT !.isSubmitting = FALSE, !.pc = "idle", !.req = NoRequest,
                        !.toast = Toast("Failed to save notification", "error")]
    /\ UNCHANGED <<dl, store, directory, list, sm, sh, sv, toast, timers, em, sc,
                   dash, sf, created, probe>>

(* ------------------------------------------------------------------ *)
(* components/ScheduleNotificationModal.tsx: schedule a new one        *)
(* ------------------------------------------------------------------ *)
\* setStep('new')
ChooseNew ==
    /\ sc.isOpen /\ sc.step = "choice"
    /\ sc' = [sc EXCEPT !.step = "new"]
    /\ UNCHANGED <<dl, store, directory, list, sm, sh, sv, toast, timers, em, dash,
                   nn, sf, created, probe, dl>>

\* onChange of the new step's title input
ScheduleEditTitle(v) ==
    /\ sc.isOpen /\ sc.step = "new"
    /\ sf.inputs < MaxFormInputs
    /\ sf' = [sf EXCEPT !.title = v, !.inputs = @ + 1]
    /\ UNCHANGED <<dl, store, directory, list, sm, sh, sv, toast, timers, em, sc,
                   dash, nn, created, probe>>

\* onChange of the new step's body textarea
ScheduleEditBody(v) ==
    /\ sc.isOpen /\ sc.step = "new"
    /\ sf.inputs < MaxFormInputs
    /\ sf' = [sf EXCEPT !.body = v, !.inputs = @ + 1]
    /\ UNCHANGED <<dl, store, directory, list, sm, sh, sv, toast, timers, em, sc,
                   dash, nn, created, probe>>

\* the modal's handleJsonChange
ScheduleEditJson(v) ==
    /\ sc.isOpen /\ sc.step = "new"
    /\ sf.inputs < MaxFormInputs
    /\ sf' = [sf EXCEPT !.jsonData = v, !.jsonError = JsonErrorOf(v),
                        !.inputs = @ + 1]
    /\ UNCHANGED <<dl, store, directory, list, sm, sh, sv, toast, timers, em, sc,
                   dash, nn, created, probe>>

\* onChange of the new step's date and time inputs
NewStepSetSendAt(t) ==
    /\ sc.isOpen /\ sc.step = "new"
    /\ sf.inputs < MaxFormInputs
    /\ sc' = [sc EXCEPT !.sendAt = t]
    /\ sf' = [sf EXCEPT !.inputs = @ + 1]
    /\ UNCHANGED <<dl, store, directory, list, sm, sh, sv, toast, timers, em, dash,
                   nn, created, probe>>

\* the button of the new step: disabled={isSaving || !!jsonError || ... ||
\* !sendAtDate || !sendAtTime}
ScheduleNewButtonEnabled ==
    /\ sc.isOpen /\ sc.step = "new" /\ ~sc.isSaving
    /\ ~sf.jsonError
    /\ sc.sendAt # NoTime

\* handleScheduleNew's payload
ScheduleNewPayload(f, sendAt, group) ==
    Request("save", "",
            {"title", "body", "sendAt", "status", "userGroup"}
              \cup (IF Truthy(Trim(f.jsonData)) THEN {"data"} ELSE {}),
            [NoVals EXCEPT !.title = Trim(f.title), !.body = Trim(f.body),
                           !.data = JsonParse(f.jsonData),
                           !.sendAt = sendAt, !.status = "pending",
                           !.userGroup = IF group # "" THEN group ELSE "allUsers"])

\* handleScheduleNew: a blank title or body ends it with an error toast;
\* otherwise it runs up to `await saveNotification(payload)`
handleScheduleNew ==
    /\ ScheduleNewButtonEnabled
    /\ IF ~Truthy(Trim(sf.title)) \/ ~Truthy(Trim(sf.body))
       THEN sc' = [sc EXCEPT !.toast = Toast("Title and body are required", "error")]
       ELSE sc' = [sc EXCEPT !.isSaving = TRUE, !.pc = "create",
                             !.req = ScheduleNewPayload(sf, sc.sendAt,
                                                        sc.selectedUserGroup)]
    /\ UNCHANGED <<dl, store, directory, list, sm, sh, sv, toast, timers, em, dash,
                   nn, sf, created, probe, dl>>

\* saveNotification resolves: success toast and the deferred close
ScheduleNewOk ==
    /\ sc.pc = "create"
    /\ timers.schedule < MaxTimers
    /\ created' = Append(created, ApplyCreate(sc.req))
    /\ sc' = [sc EXCEPT !.isSaving = FALSE, !.pc = "idle", !.req = NoRequest,
                        !.toast = Toast("Notification scheduled successfully!", "success")]
    /\ timers' = [timers EXCEPT !.schedule = @ + 1]
    /\ UNCHANGED <<dl, store, directory, list, sm, sh, sv, toast, em, dash, nn, sf,
                   probe>>

\* saveNotification rejects
ScheduleNewFailed ==
    /\ sc.pc = "create"
    /\ sc' = [sc EXCEPT !.isSaving = FALSE, !.pc = "idle", !.req = NoRequest,
                        !.toast = Toast("Failed to schedule notification", "error")]
    /\ UNCHANGED <<dl, store, directory, list, sm, sh, sv, toast, timers, em, dash,
                   nn, sf, created, probe, dl>>

(* ------------------------------------------------------------------ *)
(* pages/Dashboard.tsx: the delete flow                                *)
(* ------------------------------------------------------------------ *)
\* the id under which the upstream keeps a document
DocId(e) == Or(FieldOf(e, "id"), FieldOf(e, "docId"))

\* deleteNotificationHandler: the documents left after deleting `id`
RECURSIVE WithoutDoc(_, _)
WithoutDoc(docs, id) ==
    IF docs = <<>> THEN <<>>
    ELSE IF docs[1].kind = "object" /\ DocId(docs[1]) = id
         THEN WithoutDoc(Tail(docs), id)
         ELSE <<docs[1]>> \o WithoutDoc(Tail(docs), id)

\* a sequence without its k-th element
RemoveAt(seq, k) == SubSeq(seq, 1, k - 1) \o SubSeq(seq, k + 1, Len(seq))

\* the mount effect's loadNotifications, when fetchNotifications settles
DashboardLoaded(ok, shape) ==
    /\ dl.loading /\ dl.calls = <<>> /\ dl.started = 0
    /\ dl' = [dl EXCEPT !.items = fetchNotifications(ok, shape, dl.docs),
                        !.loading = FALSE]
    /\ UNCHANGED <<store, directory, list, sm, sh, sv, toast, timers, em, sc,
                   dash, createVars, probe>>

\* disabled={deletingId === notification.id}
DeleteEnabled(n) == dl.deletingId # n.id

\* handleDelete(notification), confirmed: setDeletingId(notification.id) and
\* await deleteNotification(notification.id)
handleDelete(i) ==
    /\ ~dl.loading
    /\ i \in 1..Len(dl.items)
    /\ DeleteEnabled(dl.items[i])
    /\ dl.started < MaxDeletes
    /\ dl' = [dl EXCEPT !.deletingId = dl.items[i].id,
                        !.calls = Append(@, [id |-> dl.items[i].id, pc |-> "delete"]),
                        !.started = @ + 1]
    /\ UNCHANGED <<store, directory, list, sm, sh, sv, toast, timers, em, sc,
                   dash, createVars, probe>>

\* deleteNotification resolves: success toast, then await loadNotifications()
\* (which sets loading)
DeleteOk(k) ==
    /\ k \in 1..Len(dl.calls) /\ dl.calls[k].pc = "delete"
    /\ dl' = [dl EXCEPT !.docs = WithoutDoc(@, dl.calls[k].id),
                        !.calls[k].pc = "reload",
                        !.loading = TRUE,
                        !.toast = Toast("Notification deleted successfully", "success")]
    /\ UNCHANGED <<store, directory, list, sm, sh, sv, toast, timers, em, sc,
                   dash, createVars, probe>>

\* the handler's loadNotifications settles (it never rejects); the finally
\* block: setDeletingId(null)
DeleteReloaded(k, ok, shape) ==
    /\ k \in 1..Len(dl.calls) /\ dl.calls[k].pc = "reload"
    /\ dl' = [dl EXCEPT !.items = fetchNotifications(ok, shape, dl.docs),
                        !.loading = FALSE,
                        !.deletingId = "",
                        !.calls = RemoveAt(@, k)]
    /\ UNCHANGED <<store, directory, list, sm, sh, sv, toast, timers, em, sc,
                   dash, createVars, probe>>

\* deleteNotification rejects: error toast and the finally block
DeleteFailed(k) ==
    /\ k \in 1..Len(dl.calls) /\ dl.calls[k].pc = "delete"
    /\ dl' = [dl EXCEPT !.deletingId = "",
                        !.calls = RemoveAt(@, k),
                        !.toast = Toast("Failed to delete notification", "error")]
    /\ UNCHANGED <<store, directory, list, sm, sh, sv, toast, timers, em, sc,
                   dash, createVars, probe>>

(* ------------------------------------------------------------------ *)
(* lib/api.ts: calls of the fetch functions                            *)
(* ------------------------------------------------------------------ *)
CallFetchUsers(ok, shape, items) ==
    /\ probe' = Probe("fetchUsers", ok, shape, items, fetchUsers(ok, shape, items))
    /\ UNCHANGED <<dl, store, directory, list, sm, sh, sv, toast, timers, em, sc,
                   dash, createVars>>

CallFetchNotifications(ok, shape, items) ==
    /\ probe' = Probe("fetchNotifications", ok, shape, items,
                      fetchNotifications(ok, shape, items))
    /\ UNCHANGED <<dl, store, directory, list, sm, sh, sv, toast, timers, em, sc,
                   dash, createVars>>

CallFetchScheduledNotifications(ok, shape, items) ==
    /\ probe' = Probe("fetchScheduledNotifications", ok, shape, items,
                      fetchScheduledNotifications(ok, shape, items))
    /\ UNCHANGED <<dl, store, directory, list, sm, sh, sv, toast, timers, em, sc,
                   dash, createVars>>

CallFetchUserGroups(ok, shape, items) ==
    /\ probe' = Probe("fetchUserGroups", ok, shape, items,
                      fetchUserGroups(ok, shape, items))
    /\ UNCHANGED <<dl, store, directory, list, sm, sh, sv, toast, timers, em, sc,
                   dash, createVars>>

CallFetchSegments(ok, shape, items) ==
    /\ probe' = Probe("fetchSegments", ok, shape, items,
                      fetchSegments(ok, shape, items))
    /\ UNCHANGED <<dl, store, directory, list, sm, sh, sv, toast, timers, em, sc,
                   dash, createVars>>

CallFetchSegmentUsers(ok, shape, items) ==
    /\ probe' = Probe("fetchSegmentUsers", ok, shape, items,
                      fetchSegmentUsers(ok, shape, items))
    /\ UNCHANGED <<dl, store, directory, list, sm, sh, sv, toast, timers, em, sc,
                   dash, createVars>>

(* ------------------------------------------------------------------ *)
(* Specification                                                       *)
(* ------------------------------------------------------------------ *)
Next ==
    \/ LoadNotificationsDone
    \/ \E i \in 1..Cardinality(NotifIds) : OpenSend(i)
    \/ CloseSend
    \/ SendTimerFires
    \/ \E v \in TitleInputs : EditTitle(v)
    \/ \E v \in BodyInputs : EditBody(v)
    \/ \E v \in DataInputs : EditJson(v)
    \/ \E opt \in {"all", "custom"} : SetRecipient(opt)
    \/ \E ok \in BOOLEAN, shape \in Shapes : LoadUsersDone(ok, shape)
    \/ \E i \in 1..3 : ToggleUser(i)
    \/ SendClickAll
    \/ SendClickCustom
    \/ \E shape \in Shapes : SendFetchOk(shape)
    \/ SendFetchFailed
    \/ SendUpdateOk
    \/ SendUpdateFailed
    \/ SendExecOk
    \/ SendExecFailed
    \/ SaveClick
    \/ SaveOk
    \/ SaveFailed
    \/ \E i \in 1..Cardinality(NotifIds) : OpenEdit(i)
    \/ \E ok \in BOOLEAN, shape \in {"groups", "array", "other"} : EditGroupsLoaded(ok, shape)
    \/ \E t \in TimeInputs : EditSetSendAt(t)
    \/ \E g \in {"allUsers", "g1", "g2"} : EditSetGroup(g)
    \/ CloseEdit
    \/ handleUpdate
    \/ handleCancel
    \/ EditRequestOk
    \/ EditRequestFailed
    \/ EditTimerFires
    \/ OpenSchedule
    \/ ChooseExisting
    \/ ScheduleBack
    \/ \E ok \in BOOLEAN : ScheduleNotificationsLoaded(ok)
    \/ \E i \in 1..Cardinality(NotifIds) : SelectNotification(i)
    \/ \E t \in TimeInputs : ScheduleSetSendAt(t)
    \/ CloseSchedule
    \/ handleScheduleExisting
    \/ ScheduleRequestOk
    \/ ScheduleRequestFailed
    \/ ScheduleTimerFires
    \/ \E id \in NotifIds : SchedulerSends(id)

Spec == Init /\ [][Next]_vars

\* the create flows: the new-notification page and the schedule modal's
\* new step
NextCreate ==
    \/ \E v \in NewTitleInputs : NewEditTitle(v)
    \/ \E v \in NewBodyInputs : NewEditBody(v)
    \/ \E v \in DataInputs : NewEditJson(v)
    \/ handleSubmit
    \/ SubmitOk
    \/ SubmitFailed
    \/ OpenSchedule
    \/ ChooseNew
    \/ ScheduleBack
    \/ \E v \in NewTitleInputs : ScheduleEditTitle(v)
    \/ \E v \in NewBodyInputs : ScheduleEditBody(v)
    \/ \E v \in DataInputs : ScheduleEditJson(v)
    \/ \E t \in TimeInputs : NewStepSetSendAt(t)
    \/ CloseSchedule
    \/ handleScheduleNew
    \/ ScheduleNewOk
    \/ ScheduleNewFailed
    \/ ScheduleTimerFires

SpecCreate == Init /\ [][NextCreate]_vars

\* the fetch functions applied to upstream payloads of every shape
NextNormalize ==
    \E ok \in BOOLEAN, shape \in PayloadShapes, items \in RawLists :
        \/ CallFetchUsers(ok, shape, items)
        \/ CallFetchNotifications(ok, shape, items)
        \/ CallFetchScheduledNotifications(ok, shape, items)
        \/ CallFetchUserGroups(ok, shape, items)
        \/ CallFetchSegments(ok, shape, items)
        \/ CallFetchSegmentUsers(ok, shape, items)

SpecNormalize == Init /\ [][NextNormalize]_vars

\* the dashboard's delete flow over upstream documents with and without ids
NextDelete ==
    \/ \E ok \in BOOLEAN, shape \in {"array", "notifications"} : DashboardLoaded(ok, shape)
    \/ \E i \in 1..2 : handleDelete(i)
    \/ \E k \in 1..MaxDeletes : DeleteOk(k)
    \/ \E k \in 1..MaxDeletes, ok \in BOOLEAN, shape \in {"array", "notifications"} :
          DeleteReloaded(k, ok, shape)
    \/ \E k \in 1..MaxDeletes : DeleteFailed(k)

SpecDelete == InitDelete /\ [][NextDelete]_vars

\* the send and the reschedule modal, opened, closed and opened again around
\* their deferred close
NextReopen ==
    \/ LoadNotificationsDone
    \/ \E i \in 1..Cardinality(NotifIds) : OpenSend(i)
    \/ CloseSend
    \/ SendTimerFires
    \/ SendClickAll
    \/ \E shape \in Shapes : SendFetchOk(shape)
    \/ SendFetchFailed
    \/ SendUpdateOk
    \/ SendUpdateFailed
    \/ SendExecOk
    \/ SendExecFailed
    \/ \E i \in 1..Cardinality(NotifIds) : OpenEdit(i)
    \/ \E ok \in BOOLEAN, shape \in {"groups", "array", "other"} : EditGroupsLoaded(ok, shape)
    \/ CloseEdit
    \/ handleUpdate
    \/ handleCancel
    \/ EditRequestOk
    \/ EditRequestFailed
    \/ EditTimerFires

SpecReopen == InitReopen /\ [][NextReopen]_vars

\* the data text of the send modal, of the new-notification form and of the
\* schedule modal's new step: opened, edited, reset and submitted
NextJson ==
    \/ LoadNotificationsDone
    \/ \E i \in 1..Cardinality(NotifIds) : OpenSend(i)
    \/ CloseSend
    \/ SendTimerFires
    \/ \E v \in DataInputs : EditJson(v)
    \/ SendClickAll
    \/ \E shape \in Shapes : SendFetchOk(shape)
    \/ SendFetchFailed
    \/ SendUpdateOk
    \/ SendUpdateFailed
    \/ SendExecOk
    \/ SendExecFailed
    \/ SaveClick
    \/ SaveOk
    \/ SaveFailed
    \/ \E v \in {<<"b">>} : NewEditTitle(v)
    \/ \E v \in {<<"n">>} : NewEditBody(v)
    \/ \E v \in DataInputs : NewEditJson(v)
    \/ handleSubmit
    \/ SubmitOk
    \/ SubmitFailed
    \/ OpenSchedule
    \/ ChooseNew
    \/ ScheduleBack
    \/ \E v \in {<<"b">>} : ScheduleEditTitle(v)
    \/ \E v \in {<<"n">>} : ScheduleEditBody(v)
    \/ \E v \in DataInputs : ScheduleEditJson(v)
    \/ \E t \in TimeInputs : NewStepSetSendAt(t)
    \/ CloseSchedule
    \/ handleScheduleNew
    \/ ScheduleNewOk
    \/ ScheduleNewFailed
    \/ ScheduleTimerFires

\* the console over one directory and one saved notification with data
InitJson ==
    /\ InitOthers
    /\ store = [id \in NotifIds |-> Stored(<<"a">>, Obj1, "pending", NoTime, NoGroup)]
    /\ directory = DirDup
    /\ dl = InitDashboard(<<>>)
    /\ dash = InitSessions(MaxSessions)

SpecJson == InitJson /\ [][NextJson]_vars

\* the send modal's explicit selection over directories with shared keys
NextSelect ==
    \/ LoadNotificationsDone
    \/ \E i \in 1..Cardinality(NotifIds) : OpenSend(i)
    \/ CloseSend
    \/ \E opt \in {"all", "custom"} : SetRecipient(opt)
    \/ \E ok \in BOOLEAN, shape \in Shapes : LoadUsersDone(ok, shape)
    \/ \E i \in 1..2 : ToggleUser(i)
    \/ SendClickCustom
    \/ SendUpdateOk
    \/ SendUpdateFailed
    \/ SendExecOk
    \/ SendExecFailed
    \/ SendTimerFires

SpecSelect == InitSelect /\ [][NextSelect]_vars

\* every operation with an in-flight flag, its upstream calls settling at
\* last: the send, the save, the reschedule, the cancel, the schedule and the
\* delete, without the edits of the fields
NextLive ==
    \/ LoadNotificationsDone
    \/ \E i \in 1..Cardinality(NotifIds) : OpenSend(i)
    \/ CloseSend
    \/ SendTimerFires
    \/ SendClickAll
    \/ \E shape \in Shapes : SendFetchOk(shape)
    \/ SendFetchFailed
    \/ SendUpdateOk
    \/ SendUpdateFailed
    \/ SendExecOk
    \/ SendExecFailed
    \/ SaveClick
    \/ SaveOk
    \/ SaveFailed
    \/ \E i \in 1..Cardinality(NotifIds) : OpenEdit(i)
    \/ \E ok \in BOOLEAN, shape \in {"groups", "array", "other"} : EditGroupsLoaded(ok, shape)
    \/ CloseEdit
    \/ handleUpdate
    \/ handleCancel
    \/ EditRequestOk
    \/ EditRequestFailed
    \/ EditTimerFires
    \/ OpenSchedule
    \/ ChooseExisting
    \/ \E ok \in BOOLEAN : ScheduleNotificationsLoaded(ok)
    \/ \E i \in 1..Cardinality(NotifIds) : SelectNotification(i)
    \/ \E t \in TimeInputs : ScheduleSetSendAt(t)
    \/ CloseSchedule
    \/ handleScheduleExisting
    \/ ScheduleRequestOk
    \/ ScheduleRequestFailed
    \/ ScheduleTimerFires
    \/ \E ok \in BOOLEAN, shape \in {"array", "notifications"} : DashboardLoaded(ok, shape)
    \/ \E i \in 1..2 : handleDelete(i)
    \/ \E k \in 1..MaxDeletes : DeleteOk(k)
    \/ \E k \in 1..MaxDeletes, ok \in BOOLEAN, shape \in {"array", "notifications"} :
          DeleteReloaded(k, ok, shape)
    \/ \E k \in 1..MaxDeletes : DeleteFailed(k)

\* each awaited upstream call settles at last, resolved or rejected
CallsSettle ==
    /\ WF_vars((\E shape \in Shapes : SendFetchOk(shape)) \/ SendFetchFailed)
    /\ WF_vars(SendUpdateOk \/ SendUpdateFailed)
    /\ WF_vars(SendExecOk \/ SendExecFailed)
    /\ WF_vars(SaveOk \/ SaveFailed)
    /\ WF_vars(EditRequestOk \/ EditRequestFailed)
    /\ WF_vars(ScheduleRequestOk \/ ScheduleRequestFailed)
    /\ WF_vars(\E k \in 1..MaxDeletes : DeleteOk(k) \/ DeleteFailed(k))
    /\ WF_vars(\E k \in 1..MaxDeletes, ok \in BOOLEAN, shape \in {"array", "notifications"} :
                  DeleteReloaded(k, ok, shape))

\* the console over one directory, a scheduled notification and a dashboard
\* of two documents
InitLive ==
    /\ InitOthers
    /\ store = [id \in NotifIds |-> Stored(<<SP, "a">>, EmptyObj, "pending", 5, "g1")]
    /\ directory = DirDup
    /\ dl = InitDashboard(<<ObjElem("", "d1", "", ""), ObjElem("", "", "", "")>>)
    /\ dash = InitSessions(MaxSessions)

SpecLive == InitLive /\ [][NextLive]_vars /\ CallsSettle

(* ------------------------------------------------------------------ *)
(* Properties                                                          *)
(* ------------------------------------------------------------------ *)
Has(seq, x) == \E k \in 1..Len(seq) : seq[k] = x

\* the message of handleSend's empty-audience abort
NoTokensMessage == "No valid tokens found for selected users"

\* a step of handleSend (the click, or one of its awaits settling)
SendStep == sh' # sh

\* the content the operator saw when Send was pressed
CurrentContent(c) ==
    [title |-> Trim(c.title), body |-> Trim(c.body), data |-> DataOrEmpty(c.jsonData)]

\* C1: whenever a send action resolves an empty token list, it ends there
\* with an error report, having called neither updateNotification nor
\* executeNotification, and the store is as it was.
C1_EmptyAudienceAborts ==
    [][(SendStep /\ sh'.resolved /\ sh'.tokens = <<>>)
        => /\ sh'.pc = "idle"
           /\ ~Has(sh'.issued, "update") /\ ~Has(sh'.issued, "execute")
           /\ toast' = Toast(NoTokensMessage, "error")
           /\ ~sm'.isSending
           /\ store' = store]_vars

\* C1 witness: an all-users send of an edited notification has ended on an
\* empty token list
C1_Witness ==
    /\ sh.pc = "idle" /\ sh.resolved /\ sh.tokens = <<>>
    /\ sh.issued = <<"fetchUsers">>
    /\ sm.body # sm.originalBody
    /\ toast = Toast(NoTokensMessage, "error")

\* C2: while a dispatch call is in flight, what it delivers (its payload
\* over the saved copy) is the title, body and data the operator saw when
\* Send was pressed; cleared data is delivered as the empty object.
C2_DispatchCarriesCurrent ==
    sh.pc = "exec" => Delivered(store[sh.c.id], sh.req) = CurrentContent(sh.c)

\* the fields whose current value differs from the snapshot: title and body
\* after trimming, data as parsed values
ChangedFields(c) ==
    (IF Trim(c.title) # Trim(c.originalTitle) THEN {"title"} ELSE {})
    \cup (IF Trim(c.body) # Trim(c.originalBody) THEN {"body"} ELSE {})
    \cup (IF DataOrEmpty(c.jsonData) # DataOrEmpty(c.originalData) THEN {"data"} ELSE {})

\* C3: the update call of an edited send carries exactly the fields that
\* differ from the snapshot, with their new values, and the dispatch call
\* that follows carries the new title and body.
C3_UpdateCarriesExactlyChanged ==
    /\ (sh.pc = "update" /\ ChangedFields(sh.c) # {})
        => /\ sh.req.fields = ChangedFields(sh.c)
           /\ "title" \in sh.req.fields => sh.req.title = Trim(sh.c.title)
           /\ "body" \in sh.req.fields => sh.req.body = Trim(sh.c.body)
           /\ "data" \in sh.req.fields => sh.req.data = DataOrEmpty(sh.c.jsonData)
    /\ sh.pc = "exec"
        => sh.req.title = Trim(sh.c.title) /\ sh.req.body = Trim(sh.c.body)

\* the requests in flight
InFlight == {sh.req, sv.req, em.req, sc.req}

\* C4: no request of the client writes status 'sent'; no request of a send
\* action writes status at all; and the step on which a dispatch call fails
\* leaves the store as it was.
C4_NeverSentSpeculatively ==
    [][/\ \A r \in InFlight : ~("status" \in r.fields /\ r.status = "sent")
       /\ sh.pc # "idle" => "status" \notin sh.req.fields
       /\ (sh.pc = "exec" /\ sh'.pc = "idle" /\ toast'.type = "error")
           => store' = store]_vars

\* C4 witness: a dispatch call has failed and the notification is pending
C4_Witness ==
    /\ sh.pc = "idle" /\ Has(sh.issued, "execute")
    /\ toast = Toast("Failed to send notification", "error")
    /\ \E id \in NotifIds : store[id].status = "pending" /\ sm.notification.id = id

\* C5: no reschedule request (edit-schedule update, schedule-existing) is
\* issued for a notification whose persisted status is sent or cancelled.
C5_TerminalNotRescheduled ==
    /\ em.pc = "update" => em.before \notin {"sent", "cancelled"}
    /\ sc.pc = "schedule" => sc.before \notin {"sent", "cancelled"}

\* the distinct non-empty tokens of a directory
DistinctTokens(users) == {users[i].token : i \in 1..Len(users)} \ {""}

\* C6: the token list an all-users send hands to the dispatch call has each
\* distinct non-empty token of the directory exactly once.
C6_AllUsersDeduplicated ==
    (sh.pc = "exec" /\ Has(sh.issued, "fetchUsers"))
        => Len(sh.req.targetTokens) = Cardinality(DistinctTokens(directory))

\* C7: when the pre-dispatch update fails, the send action goes on to the
\* dispatch call with the resolved tokens and the current title, body and
\* data, and shows the operator nothing.
C7_FailedUpdateSwallowed ==
    [][(sh.pc = "update" /\ sh'.updateOk = "failed")
        => /\ sh'.pc = "exec"
           /\ sh'.req.targetTokens = sh.tokens
           /\ Delivered(store'[sh.c.id], sh'.req) = CurrentContent(sh.c)
           /\ toast' = toast]_vars

\* title, body, data and status of a persisted notification
Persisted(n) == [title |-> n.title, body |-> n.body, data |-> n.data, status |-> n.status]

\* C8, as stated: when the dispatch call fails, title, body, data and status
\* of the persisted notification (one no scheduler touches) are what they
\* were when the send action started.
C8_FailedDispatchLeavesAll ==
    [][(sh.pc = "exec" /\ sh'.pc = "idle" /\ toast'.type = "error"
        /\ sh.before.sendAt = NoTime)
        => Persisted(store'[sh.c.id]) = Persisted(sh.before)]_vars

\* C8, amended: no step of a send action other than a successful dispatch
\* changes a status, and the only title, body or data such a step changes
\* is a field its own pre-dispatch update carried, on that update's success.
C8_OnlyTheUpdateWrites ==
    [][(SendStep /\ ~(sh.pc = "exec" /\ toast'.type = "success"))
        => \A id \in NotifIds :
              /\ store'[id].status = store[id].status
              /\ store'[id].sendAt = store[id].sendAt
              /\ store'[id].userGroup = store[id].userGroup
              /\ \A f \in {"title", "body", "data"} :
                    store'[id][f] # store[id][f]
                        => /\ sh.pc = "update" /\ sh'.updateOk = "ok"
                           /\ id = sh.c.id /\ f \in sh.req.fields]_vars

\* C8 witness: the dispatch call failed after the update of an edited body
\* had succeeded
C8_Witness ==
    /\ sh.pc = "idle" /\ sh.updateOk = "ok" /\ Has(sh.issued, "execute")
    /\ toast = Toast("Failed to send notification", "error")
    /\ \E id \in NotifIds : store[id].body = <<"n">> /\ store[id].status = "pending"

\* C9: a step on which the directory fetch of a send action fails is never
\* also a step on which that fetch succeeds with zero tokens.
C9_FetchFailureDistinguished ==
    [][SendFetchFailed
        => ~\E shape \in Shapes :
               /\ ResolveAll(fetchUsers(TRUE, shape, directory)) = <<>>
               /\ SendFetchOk(shape)]_vars

\* C10: when a cancel request settles on a notification that is already
\* cancelled, the store is as it was (the notification stays cancelled, its
\* other fields unchanged), and if the request resolved a success is reported.
C10_CancelIdempotent ==
    [][(em.pc = "cancel" /\ em'.pc = "idle"
        /\ store[em.req.id].status = "cancelled")
        => /\ store' = store
           /\ em'.last.ok => em'.toast.type = "success"]_vars

\* C10 witness: a cancel has succeeded on a notification that was already
\* cancelled
C10_Witness ==
    /\ em.last = Settle("cancel", TRUE, "cancelled")
    /\ \E id \in NotifIds : store[id].status = "cancelled"

\* the operator changed no field of the session the handler captured
Unedited(c) ==
    /\ c.title = c.originalTitle
    /\ c.body = c.originalBody
    /\ c.jsonData = c.originalData

\* C11: a send of a session in which no field was edited issues no update
\* call: the change set of an untouched session is empty, whatever
\* whitespace the stored title or body carries.
C11_UneditedSendIssuesNoUpdate ==
    (sh.pc # "idle" /\ Unedited(sh.c)) => ~Has(sh.issued, "update")

\* C12: data counts as changed only when the parsed values differ: cleared
\* or blank text equals a snapshot of the empty object, and two texts of
\* the same value in different formatting are equal.
C12_DataDiffedStructurally ==
    sh.pc # "idle"
        => (dataChanged(sh.c)
              <=> DataOrEmpty(sh.c.jsonData) # DataOrEmpty(sh.c.originalData))

\* the shapes each fetch function accepts
RecognisedShapes(fn) ==
    IF fn \in {"fetchUsers", "fetchSegmentUsers"} THEN {"array", "users", "data"}
    ELSE IF fn = "fetchNotifications" THEN {"array", "notifications", "data"}
    ELSE IF fn = "fetchScheduledNotifications" THEN {"array", "notifications"}
    ELSE IF fn = "fetchUserGroups" THEN {"array", "groups"}
    ELSE {"array", "segments", "segmentsWithIds"}

\* a payload of a wrong shape: no array where the function looks for one,
\* or an array with an element that is not an object
WrongShape(p) ==
    \/ p.shape \notin RecognisedShapes(p.fn)
    \/ \E k \in 1..Len(p.items) : p.items[k].kind # "object"

\* C13: every fetch function returns an empty list for a payload of a wrong
\* shape (the functions return lists in every case, they never raise).
C13_WrongShapeYieldsEmpty ==
    (probe.fn # "none" /\ WrongShape(probe)) => probe.result = <<>>

\* a save request that a create flow may issue: title and body not empty
\* after trimming, data absent or a parsed value
ValidCreate(req) ==
    /\ req.title # <<>> /\ req.body # <<>>
    /\ req.data # Invalid

\* C14: a saveNotification call of the new-notification form or of the
\* schedule-new flow carries a non-empty trimmed title and body and, when it
\* has data, data that parsed.
C14_CreateRequiresTitleAndBody ==
    /\ nn.pc = "save" => ValidCreate(nn.req)
    /\ sc.pc = "create" => ValidCreate(sc.req)

\* C15: no schedule or reschedule request is issued with a sendAt earlier
\* than the current time: neither the edit-schedule update nor the
\* schedule-existing update in flight carries a past sendAt.
C15_PastScheduleRejected ==
    /\ em.pc = "update" => em.req.sendAt >= Now
    /\ sc.pc = "schedule" => sc.req.sendAt >= Now

\* the send modal's fields pass the validation: the data text parses (or is
\* blank) and title and body are not empty after trimming
FieldsValid ==
    /\ ~JsonErrorOf(sm.jsonData)
    /\ Truthy(Trim(sm.title)) /\ Truthy(Trim(sm.body))

\* C16: while the send modal's data text is invalid JSON or its trimmed
\* title or body is empty, no step starts a send or a save: no handler comes
\* in flight and no call is issued; a save in flight has a notification id.
C16_InvalidFieldsNoCall ==
    [][/\ (~FieldsValid /\ sh.pc = "idle" /\ sv.pc = "idle")
            => (sh'.pc = "idle" /\ sv'.pc = "idle" /\ sh'.issued = sh.issued)
       /\ sv'.pc # "idle" => sv'.c.id # ""]_vars

\* C16 witness: the modal is open with a blank body and invalid data text,
\* and nothing is in flight
C16_Witness ==
    /\ sm.isOpen /\ sm.jsonError /\ ~Truthy(Trim(sm.body))
    /\ sh.pc = "idle" /\ sv.pc = "idle"

\* the position of a call in the calls a send action has issued (0: not issued)
Pos(seq, x) == IF Has(seq, x) THEN CHOOSE k \in 1..Len(seq) : seq[k] = x ELSE 0

\* C17 as stated: whenever a send action issues an update call and a
\* directory fetch, the update call is issued before the fetch.
C17_UpdateBeforeFetch ==
    (Has(sh.issued, "update") /\ Has(sh.issued, "fetchUsers"))
        => Pos(sh.issued, "update") < Pos(sh.issued, "fetchUsers")

\* C17 amended: a send action resolves first, then reconciles and updates,
\* then dispatches: an update call is issued only after the audience is
\* resolved to a non-empty token list (after the directory fetch, if there
\* was one), and the dispatch of an edited session is issued only after the
\* update call was issued and has settled.
C17_ResolveUpdateDispatch ==
    /\ sh.pc = "update"
        => /\ sh.resolved /\ sh.tokens # <<>>
           /\ sh.issued \in {<<"fetchUsers", "update">>, <<"update">>}
    /\ sh.pc = "exec"
        => /\ sh.issued \in {<<"fetchUsers", "update", "execute">>,
                             <<"update", "execute">>,
                             <<"fetchUsers", "execute">>, <<"execute">>}
           /\ Has(sh.issued, "update") <=> wasEdited(sh.c)
           /\ Has(sh.issued, "update") => sh.updateOk \in {"ok", "failed"}

\* C17 witness: the dispatch of an all-users send is in flight after the
\* fetch and the update
C17_Witness ==
    /\ sh.pc = "exec"
    /\ sh.issued = <<"fetchUsers", "update", "execute">>

\* C18: no step sets or changes the sendAt of a notification whose status
\* is sent (the external scheduler's own step leaves sendAt alone, so every
\* such change is a client write).
C18_NoSendAtWriteOnSent ==
    [][\A id \in NotifIds :
          store[id].status = "sent" => store'[id].sendAt = store[id].sendAt]_vars

\* C19: a send or a save of the send modal starts only while neither a send
\* nor a save is unsettled, and an update or a cancel of the edit-schedule
\* modal starts only while neither is unsettled.
C19_NoReinvocationInFlight ==
    [][/\ (SendClickAll \/ SendClickCustom \/ SaveClick)
            => (sh.pc = "idle" /\ sv.pc = "idle")
       /\ (handleUpdate \/ handleCancel) => em.pc = "idle"]_vars

\* C19 witness: the send modal is open with valid fields while its dispatch
\* call is unsettled (an invocation has started and is still in flight)
C19_Witness ==
    /\ sm.isOpen /\ sm.isSending /\ sh.pc = "exec"
    /\ ~sm.jsonError /\ Truthy(Trim(sm.title)) /\ Truthy(Trim(sm.body))

\* C20: every send action that has resolved its audience has issued a
\* directory fetch of its own: no token list comes from users loaded
\* before the send action.
C20_ResolutionFetchesFresh ==
    sh.resolved => Has(sh.issued, "fetchUsers")

\* the ids the normalizer makes up for records without id and docId
SyntheticIds == {NotificationIndexId(k) : k \in 0..2}

\* C22: no request is issued with a synthetic id as its notificationId:
\* no delete request in flight names an id the normalizer made up.
C22_SyntheticIdNeverSent ==
    \A k \in 1..Len(dl.calls) :
        dl.calls[k].pc = "delete" => dl.calls[k].id \notin SyntheticIds

\* C28: while a delete request for a notification is unsettled, deletingId
\* is that notification's id, and no second delete request for it is
\* unsettled at the same time.
C28_DeleteStaysDisabled ==
    \A k \in 1..Len(dl.calls) :
        dl.calls[k].pc = "delete"
            => /\ dl.deletingId = dl.calls[k].id
               /\ \A j \in 1..Len(dl.calls) :
                     (j # k /\ dl.calls[j].pc = "delete")
                         => dl.calls[j].id # dl.calls[k].id

\* the record returned for an upstream object has the defaults for the
\* fields the object lacks and the object's own value for those it has
NormalizedFrom(r, e) ==
    /\ r.status = (IF e.status # "" THEN e.status ELSE "pending")
    /\ r.createdBy = (IF e.createdBy # "" THEN e.createdBy ELSE "system")
    /\ r.data = (IF e.data # Absent THEN e.data ELSE EmptyObj)
    /\ r.targetTokens = (IF e.hasTargetTokens THEN e.targetTokens ELSE <<>>)
    /\ e.id # "" => r.id = e.id
    /\ e.userGroup # "" => ("userGroup" \in DOMAIN r /\ r.userGroup = e.userGroup)

\* C23: every record fetchNotifications and fetchScheduledNotifications
\* return for an upstream object carries 'pending', 'system', the empty map
\* and the empty list for a missing status, createdBy, data and
\* targetTokens, and every field the object has with its upstream value.
C23_DefaultsAndPresentFields ==
    (probe.fn \in {"fetchNotifications", "fetchScheduledNotifications"}
       /\ probe.result # <<>>)
        => \A k \in 1..Len(probe.items) :
              probe.items[k].kind = "object"
                  => NormalizedFrom(probe.result[k], probe.items[k])

\* C24: the update request of a save carries only the fields whose value
\* differs from the session's snapshot.
C24_SaveCarriesOnlyChanged ==
    sv.pc = "update" => sv.req.fields \subseteq ChangedFields(sv.c)

\* the session a send would capture if it followed a save of capture c with
\* no further edit: the saved field values against the current baseline
AfterSave(c, m) ==
    [c EXCEPT !.originalTitle = m.originalTitle,
              !.originalBody = m.originalBody,
              !.originalData = m.originalData]

SaveSucceeds ==
    sv.pc = "update" /\ sv'.pc = "idle" /\ toast'.type = "success"

SaveFails ==
    sv.pc = "update" /\ sv'.pc = "idle" /\ toast'.type = "error"

\* C25: a successful save moves the baseline to the trimmed title, body and
\* data text it saved, so that a send of the same field values finds nothing
\* changed and issues no update; a failed save leaves the baseline alone, so
\* that a send of the same field values in the session that saved issues the
\* same update as before.
C25_SaveMovesBaseline ==
    [][/\ SaveSucceeds =>
            /\ sm'.originalTitle = Trim(sv.c.title)
            /\ sm'.originalBody = Trim(sv.c.body)
            /\ sm'.originalData = Trim(sv.c.jsonData)
            /\ UpdateFields(AfterSave(sv.c, sm')) = {}
       /\ SaveFails =>
            /\ sm'.originalTitle = sm.originalTitle
            /\ sm'.originalBody = sm.originalBody
            /\ sm'.originalData = sm.originalData
            /\ (/\ sm.originalTitle = sv.c.originalTitle
                /\ sm.originalBody = sv.c.originalBody
                /\ sm.originalData = sv.c.originalData)
                 => UpdateFields(AfterSave(sv.c, sm')) = UpdateFields(sv.c)
       /\ (sh.pc \in {"idle", "fetch"} /\ sh'.pc \in {"update", "exec"}) =>
            (sh'.pc = "update" <=> (wasEdited(sh'.c) /\ sh'.c.id # ""))]_vars

\* a send that follows a successful save of an edited title reached its
\* dispatch without an update call
C25_Witness ==
    /\ sh.pc = "exec"
    /\ ~Has(sh.issued, "update")
    /\ sh.c.originalTitle # Trim(sm.notification.title)
    /\ sh.c.originalTitle = Trim(sh.c.title)

\* the non-empty tokens of the listed records the operator has toggled on
ToggledTokens(m) ==
    {m.users[i].token : i \in {j \in m.toggled : j <= Len(m.users) /\ m.users[j].token # ""}}

\* C27: a send in explicit-selection mode resolves exactly the non-empty
\* tokens of the toggled user records: a record the operator did not toggle
\* contributes no token, also when records share an id or have no key at all.
C27_OnlyToggledRecords ==
    [][(sh.pc = "idle" /\ sm.recipientOption = "custom" /\ sh' # sh /\ sh'.resolved)
        => {sh'.tokens[k] : k \in 1..Len(sh'.tokens)} = ToggledTokens(sm)]_vars

\* C26: every started send, save, reschedule, cancel, schedule and delete
\* eventually clears its in-flight flag, whatever its outcome, when each
\* upstream call it awaits settles at last.
C26_FlagsEventuallyClear ==
    /\ sm.isSending ~> ~sm.isSending
    /\ sm.isSaving ~> ~sm.isSaving
    /\ em.isUpdating ~> ~em.isUpdating
    /\ em.isCanceling ~> ~em.isCanceling
    /\ sc.isSaving ~> ~sc.isSaving
    /\ (dl.deletingId # "") ~> (dl.deletingId = "")

\* a send that went as far as its dispatch has ended and left no flag, while
\* a delete is still awaiting its call
C26_Witness ==
    /\ sh.pc = "idle" /\ sh.resolved /\ Has(sh.issued, "execute")
    /\ ~sm.isSending
    /\ dl.deletingId # "" /\ Len(dl.calls) = 2

\* C29: a deferred close leaves open a modal session that was opened after
\* the close was set: it closes only the session that produced it.
C29_DeferredCloseOwnSession ==
    [][/\ (timers'.send < timers.send /\ sm.isOpen /\ dash.sessions > timers.sendSession)
            => sm'.isOpen
       /\ (timers'.edit < timers.edit /\ em.isOpen /\ dash.sessions > timers.editSession)
            => em'.isOpen]_vars

\* jsonError is empty exactly when the data text is blank or parses
JsonErrorTracks(f) ==
    ~f.jsonError <=> (~Truthy(Trim(f.jsonData)) \/ JsonParse(f.jsonData) # Invalid)

\* the JSON.parse that built the request's data did not throw
ParsedData(req) == "data" \in req.fields => req.data # Invalid

\* C30: in the send modal, the new-notification form and the schedule
\* modal's form, jsonError is empty exactly when the data text is blank or
\* parses as JSON, and no request was built from a data text that does not
\* parse.
C30_JsonErrorTracksData ==
    /\ JsonErrorTracks(sm) /\ JsonErrorTracks(nn) /\ JsonErrorTracks(sf)
    /\ ParsedData(sh.req) /\ ParsedData(sv.req)
    /\ ParsedData(nn.req) /\ ParsedData(sc.req)

\* the send modal holds a data text that does not parse, with its error,
\* while the new-notification form awaits a save built from a parsed text
C30_Witness ==
    /\ sm.isOpen /\ sm.jsonError /\ Truthy(Trim(sm.jsonData))
    /\ nn.pc = "save" /\ "data" \in nn.req.fields

====
